---------------------------- MODULE Spec2Model ----------------------------
(***************************************************************************)
(* Model of app/static/js/transfers.js: the four account rails of the      *)
(* transfer page (local-from, local-to, intl-from, intl-to), the currency  *)
(* filters between paired rails, the hidden form fields and the two        *)
(* "self" checkboxes.  The DOM is the only state of the script; the model  *)
(* keeps the part of the DOM the script reads or writes.                   *)
(*                                                                         *)
(* Model of app/static/js/recipients.js: the recipient list, the           *)
(* recipient fields and the add, edit and delete requests.                 *)
(*                                                                         *)
(* Model of app/static/js/accounts_reorder.js: the track of account cards, *)
(* the drag in progress and the reorder requests.                          *)
(*                                                                         *)
(* Model of app/static/js/transaction.js: the year and month filters of    *)
(* the send-overview page, the KPI, the two charts and the overview        *)
(* requests in flight.                                                     *)
(*                                                                         *)
(* Model of the accounts-page scripts (unnamed/part_003): the account      *)
(* cards with their active class and radio, the show/hide-inactive         *)
(* toggle, the Set Limit, Settle and Set Balance buttons with their        *)
(* deferred refreshes, and the settle and edit modals.                     *)
(*                                                                         *)
(* Model of app/static/js/salary.js: the rows of the salary adjustment     *)
(* table in display or edit mode and the save requests in flight.          *)
(*                                                                         *)
(* Each script has its own specification; the state of the other scripts   *)
(* is held at that of a page on which their elements do not exist.         *)
(***************************************************************************)
EXTENDS Integers, Sequences, FiniteSets, TLC

VARIABLES rails, hid, chk, input, wrap, present, threw,
          list, field, req, btnDisabled, editAction, alertMsg,
          track, dragging, inflight, lastLog,
          yearSel, monthSel, kpi, lineChart, barChart, loads, overviewLog,
          acctCards, activeCls, checkedRadio, showInactive, modalShown, toolDisabled, timers, settle, accEdit,
          adjRows, saving

transferVars == <<rails, hid, chk, input, wrap, present, threw>>
recipientVars == <<list, field, req, btnDisabled, editAction, alertMsg>>
reorderVars == <<track, dragging, inflight, lastLog>>
overviewVars == <<yearSel, monthSel, kpi, lineChart, barChart, loads, overviewLog>>
accountsVars == <<acctCards, activeCls, checkedRadio, showInactive, modalShown, toolDisabled, timers, settle, accEdit>>
salaryVars == <<adjRows, saving>>

vars == <<transferVars, recipientVars, reorderVars, overviewVars, accountsVars, salaryVars>>

\* What a handler of one script leaves alone: the state of the other scripts.
notTransferVars == <<recipientVars, reorderVars, overviewVars, accountsVars, salaryVars>>
notRecipientVars == <<transferVars, reorderVars, overviewVars, accountsVars, salaryVars>>
notReorderVars == <<transferVars, recipientVars, overviewVars, accountsVars, salaryVars>>
notOverviewVars == <<transferVars, recipientVars, reorderVars, accountsVars, salaryVars>>
notAccountsVars == <<transferVars, recipientVars, reorderVars, overviewVars, salaryVars>>
notSalaryVars == <<transferVars, recipientVars, reorderVars, overviewVars, accountsVars>>

\* recipients.js on a page without #recipientList, forms and buttons: every
\* listener registration is skipped (list?., addForm?., delBtn?.).
RecipientsAbsent ==
  /\ list = << >>
  /\ field = [recipient_id |-> "", recipient_name |-> ""]
  /\ req = [add |-> [sent |-> FALSE],
            edit |-> [sent |-> FALSE, url |-> ""],
            delete |-> [sent |-> FALSE, active |-> 0]]
  /\ btnDisabled = [add |-> FALSE, edit |-> FALSE, delete |-> FALSE]
  /\ editAction = ""
  /\ alertMsg = ""

\* accounts_reorder.js on a page without .slider-track: if (!track) return.
ReorderAbsent ==
  /\ track = << >>
  /\ dragging = {}
  /\ inflight = << >>
  /\ lastLog = ""

\* transaction.js on a page without the filters, the KPI or the canvases:
\* the script warns and returns before it registers a listener.
OverviewAbsent ==
  /\ yearSel = [options |-> {}, value |-> 0]
  /\ monthSel = [options |-> {}, value |-> 0]
  /\ kpi = << >>
  /\ lineChart = << >>
  /\ barChart = << >>
  /\ loads = << >>
  /\ overviewLog = ""

\* The accounts-page scripts on a page without account cards, with no modal
\* shown and no timer pending.
AccountsAbsent ==
  /\ acctCards = << >>
  /\ activeCls = {}
  /\ checkedRadio = 0
  /\ showInactive = FALSE
  /\ modalShown = ""
  /\ toolDisabled = [limit |-> TRUE, settle |-> TRUE, balance |-> TRUE]
  /\ timers = {}
  /\ settle = [cardId |-> "", full |-> TRUE, amount |-> << >>, readOnly |-> TRUE]
  /\ accEdit = [id |-> "", active |-> FALSE]

\* salary.js on a page without #salaryAdjustAccordion table: if (!table)
\* return.
SalaryAbsent ==
  /\ adjRows = << >>
  /\ saving = {}

(***************************************************************************)
(* Bounds and the server-rendered page                                     *)
(***************************************************************************)

\* Largest number of account cards the server renders into one rail.
MaxCards == 2

\* The value JavaScript yields for a data attribute or option that is absent.
undefined == "<undefined>"

\* The accounts a page may show, in document order.  Each is rendered as an
\* .account-card with data-account-id and data-currency; the last account has
\* neither attribute.
Accounts == << [accountId |-> "1", currency |-> "KRW"],
               [accountId |-> "2", currency |-> "BDT"],
               [accountId |-> "3", currency |-> "bdt"],
               [accountId |-> "4", currency |-> "USD"],
               [accountId |-> undefined, currency |-> undefined] >>

Groups == {"local-from", "local-to", "intl-from", "intl-to"}

HiddenFields == {"local-from-id", "local-currency", "local-to-id",
                 "intl-from-id", "intl-to-id"}

Checkboxes == {"chk-self", "local-chk-self"}

RecipientInputs == {"recipient_id", "recipient_name",
                    "local-recipient_id", "local-recipient_name"}

Wraps == {"recipient-wrap", "local-recipient-wrap", "self-bdt-wrap"}

\* 'rail-' + group
RailId(group) ==
  CASE group = "local-from" -> "rail-local-from"
    [] group = "local-to"   -> "rail-local-to"
    [] group = "intl-from"  -> "rail-intl-from"
    [] OTHER                -> "rail-intl-to"

\* The ids of the elements the script looks up.
Elements ==
  {RailId(g) : g \in Groups} \cup HiddenFields \cup Checkboxes
    \cup RecipientInputs \cup Wraps

RECURSIVE CardsOf(_)
\* The cards of a rail that lists the accounts numbered S, in document order,
\* as the server renders them: no card selected, hidden or disabled.
CardsOf(S) ==
  IF S = {} THEN << >>
  ELSE LET n == CHOOSE x \in S : \A y \in S : x <= y
       IN  << [accountId |-> Accounts[n].accountId, currency |-> Accounts[n].currency,
               selected |-> FALSE, d_none |-> FALSE, disabled |-> FALSE] >>
           \o CardsOf(S \ {n})

\* The account lists a pair of rails may show.
Layouts == { S \in SUBSET DOMAIN Accounts : Cardinality(S) <= MaxCards }

\* The page before the script runs, P being the ids of the elements it has.
\* Both rails of a pair list the same accounts; a rail that is absent has no
\* cards; the checkboxes that exist are in any state (a reload restores form
\* state).  No exception has been thrown.
ServerDom(L, I, c, P) ==
  [ rails |-> [g \in Groups |->
                 IF RailId(g) \notin P THEN << >>
                 ELSE IF g \in {"local-from", "local-to"} THEN CardsOf(L) ELSE CardsOf(I)],
    hid   |-> [f \in HiddenFields |-> ""],
    chk   |-> [b \in Checkboxes |-> b \in P /\ c[b]],
    present |-> P,
    threw |-> FALSE,
    input |-> [n \in RecipientInputs |-> [disabled |-> FALSE, is_disabled |-> FALSE]],
    wrap  |-> [w \in Wraps |-> [opacity_75 |-> FALSE, aria_disabled |-> undefined,
                                d_none |-> (w = "self-bdt-wrap")]] ]

(***************************************************************************)
(* Helpers of the script                                                   *)
(***************************************************************************)

\* String.prototype.toUpperCase on the strings that occur.
toUpperCase(s) ==
  CASE s = "krw" -> "KRW"
    [] s = "bdt" -> "BDT"
    [] s = "usd" -> "USD"
    [] OTHER -> s

\* JavaScript's  x || ''  for a string or absent x.
OrEmpty(x) == IF x = undefined THEN "" ELSE x

Indices(d, group) == DOMAIN d.rails[group]

\* document.getElementById(id) is not null.
Has(d, id) == id \in d.present

\* The options table of the rails (the object `map`).
map(group) ==
  CASE group = "local-from" ->
         [hiddenId |-> "local-from-id", hiddenCurrency |-> "local-currency",
          onSelect |-> "local-from"]
    [] group = "local-to" ->
         [hiddenId |-> "local-to-id", hiddenCurrency |-> undefined,
          onSelect |-> undefined]
    [] group = "intl-from" ->
         [hiddenId |-> "intl-from-id", hiddenCurrency |-> undefined,
          onSelect |-> "intl-from"]
    [] OTHER ->
         [hiddenId |-> "intl-to-id", hiddenCurrency |-> undefined,
          onSelect |-> undefined]

\* Faulty filterRailByCurrency: the bound to-id field is emptied when the
\* selected card is hidden.
filterRailByCurrency_ClearsField(d, group, allowedCurrency) ==
  LET allow == IF allowedCurrency \notin {undefined, ""}
               THEN toUpperCase(allowedCurrency) ELSE undefined
      show(card) == IF allow # undefined
                    THEN toUpperCase(OrEmpty(card.currency)) = allow
                    ELSE TRUE
      filtered(card) == [card EXCEPT !.d_none = ~show(card),
                                     !.selected = IF show(card) THEN @ ELSE FALSE]
      hides == \E i \in DOMAIN d.rails[group] :
                 d.rails[group][i].selected /\ ~show(d.rails[group][i])
  IN  IF ~Has(d, RailId(group)) THEN d
      ELSE [d EXCEPT !.rails[group] = [i \in DOMAIN @ |-> filtered(@[i])],
                     !.hid[map(group).hiddenId] = IF hides THEN "" ELSE @]

\* Faulty filterRailByCurrency: the argument is compared as written.
filterRailByCurrency_ArgAsWritten(d, group, allowedCurrency) ==
  LET allow == IF allowedCurrency \notin {undefined, ""}
               THEN allowedCurrency ELSE undefined
      show(card) == IF allow # undefined
                    THEN toUpperCase(OrEmpty(card.currency)) = allow
                    ELSE TRUE
      filtered(card) == [card EXCEPT !.d_none = ~show(card),
                                     !.selected = IF show(card) THEN @ ELSE FALSE]
  IN  IF ~Has(d, RailId(group)) THEN d
      ELSE [d EXCEPT !.rails[group] = [i \in DOMAIN @ |-> filtered(@[i])]]

\* Faulty filterRailByCurrency: rail.querySelectorAll is called without the
\* null test, which throws a TypeError when the rail is absent.
filterRailByCurrency_NoGuard(d, group, allowedCurrency) ==
  LET allow == IF allowedCurrency \notin {undefined, ""}
               THEN toUpperCase(allowedCurrency) ELSE undefined
      show(card) == IF allow # undefined
                    THEN toUpperCase(OrEmpty(card.currency)) = allow
                    ELSE TRUE
      filtered(card) == [card EXCEPT !.d_none = ~show(card),
                                     !.selected = IF show(card) THEN @ ELSE FALSE]
  IN  IF ~Has(d, RailId(group)) THEN [d EXCEPT !.threw = TRUE]
      ELSE [d EXCEPT !.rails[group] = [i \in DOMAIN @ |-> filtered(@[i])]]

\* Faulty filterRailByCurrency: a card that is hidden keeps its selected mark.
filterRailByCurrency_KeepSelected(d, group, allowedCurrency) ==
  LET allow == IF allowedCurrency \notin {undefined, ""}
               THEN toUpperCase(allowedCurrency) ELSE undefined
      show(card) == IF allow # undefined
                    THEN toUpperCase(OrEmpty(card.currency)) = allow
                    ELSE TRUE
      filtered(card) == [card EXCEPT !.d_none = ~show(card)]
  IN  IF ~Has(d, RailId(group)) THEN d
      ELSE [d EXCEPT !.rails[group] = [i \in DOMAIN @ |-> filtered(@[i])]]

\* Faulty filterRailByCurrency: the card's currency is compared as written.
filterRailByCurrency_CaseSensitive(d, group, allowedCurrency) ==
  LET allow == IF allowedCurrency \notin {undefined, ""}
               THEN toUpperCase(allowedCurrency) ELSE undefined
      show(card) == IF allow # undefined
                    THEN OrEmpty(card.currency) = allow
                    ELSE TRUE
      filtered(card) == [card EXCEPT !.d_none = ~show(card),
                                     !.selected = IF show(card) THEN @ ELSE FALSE]
  IN  IF ~Has(d, RailId(group)) THEN d
      ELSE [d EXCEPT !.rails[group] = [i \in DOMAIN @ |-> filtered(@[i])]]

\* filterRailByCurrency('rail-' + group, allowedCurrency)
filterRailByCurrency(d, group, allowedCurrency) ==
  LET allow == IF allowedCurrency \notin {undefined, ""}
               THEN toUpperCase(allowedCurrency) ELSE undefined
      show(card) == IF allow # undefined
                    THEN toUpperCase(OrEmpty(card.currency)) = allow
                    ELSE TRUE
      filtered(card) == [card EXCEPT !.d_none = ~show(card),
                                     !.selected = IF show(card) THEN @ ELSE FALSE]
  IN  IF ~Has(d, RailId(group)) THEN d
      ELSE [d EXCEPT !.rails[group] = [i \in DOMAIN @ |-> filtered(@[i])]]

\* Faulty showAllCardsInRail: removes the class selected instead of d-none.
showAllCardsInRail_WrongClass(d, group) ==
  IF ~Has(d, RailId(group)) THEN d
  ELSE [d EXCEPT !.rails[group] = [i \in DOMAIN @ |-> [@[i] EXCEPT !.selected = FALSE]]]

\* showAllCardsInRail('rail-' + group)
showAllCardsInRail(d, group) ==
  IF ~Has(d, RailId(group)) THEN d
  ELSE [d EXCEPT !.rails[group] = [i \in DOMAIN @ |-> [@[i] EXCEPT !.d_none = FALSE]]]

applyLocalToDisables(d) ==
  LET fromId == IF Has(d, "local-from-id") THEN OrEmpty(d.hid["local-from-id"]) ELSE ""
      marked(c) == [c EXCEPT !.disabled = (c.accountId = fromId)]
  IN  [d EXCEPT !.rails["local-to"] = [i \in DOMAIN @ |-> marked(@[i])]]

\* fromCard?.dataset.currency, for a card or a null reference (a value
\* without that attribute).
datasetCurrency(fromCard) ==
  IF "currency" \in DOMAIN fromCard THEN fromCard.currency ELSE undefined

applyLocalCurrencyFilter(d, fromCard) ==
  LET cur == toUpperCase(OrEmpty(datasetCurrency(fromCard)))
  IN  IF cur = "" THEN showAllCardsInRail(d, "local-to")
      ELSE filterRailByCurrency(d, "local-to", cur)

\* Faulty applyIntlToCurrencyFilter: filters to the from card's own currency.
applyIntlToCurrencyFilter_SameCurrency(d, fromCard) ==
  LET cur == toUpperCase(OrEmpty(datasetCurrency(fromCard)))
      opposite == IF cur = "KRW" THEN "KRW"
                  ELSE IF cur = "BDT" THEN "BDT" ELSE undefined
  IN  IF cur = "" THEN showAllCardsInRail(d, "intl-to")
      ELSE IF opposite # undefined THEN filterRailByCurrency(d, "intl-to", opposite)
      ELSE showAllCardsInRail(d, "intl-to")

applyIntlToCurrencyFilter(d, fromCard) ==
  LET cur == toUpperCase(OrEmpty(datasetCurrency(fromCard)))
      opposite == IF cur = "KRW" THEN "BDT"
                  ELSE IF cur = "BDT" THEN "KRW" ELSE undefined
  IN  IF cur = "" THEN showAllCardsInRail(d, "intl-to")
      ELSE IF opposite # undefined THEN filterRailByCurrency(d, "intl-to", opposite)
      ELSE showAllCardsInRail(d, "intl-to")

\* Faulty setRecipientDisabled: the inputs of both scopes are switched.
setRecipientDisabled_IgnoresScope(d, scopePrefix, disabled) ==
  LET w  == IF scopePrefix = "" THEN "recipient-wrap" ELSE "local-recipient-wrap"
      d1 == IF Has(d, w)
            THEN [d EXCEPT !.wrap[w].opacity_75 = disabled,
                           !.wrap[w].aria_disabled = IF disabled THEN "true" ELSE "false"]
            ELSE d
  IN  [d1 EXCEPT !.input = [n \in DOMAIN @ |->
                              IF Has(d, n)
                              THEN [disabled |-> disabled, is_disabled |-> disabled]
                              ELSE @[n]]]

\* scopePrefix is "" (international) or "local-".
setRecipientDisabled(d, scopePrefix, disabled) ==
  LET w  == IF scopePrefix = "" THEN "recipient-wrap" ELSE "local-recipient-wrap"
      ns == IF scopePrefix = "" THEN {"recipient_id", "recipient_name"}
            ELSE {"local-recipient_id", "local-recipient_name"}
      nodes == { n \in ns : Has(d, n) }
      d1 == IF Has(d, w)
            THEN [d EXCEPT !.wrap[w].opacity_75 = disabled,
                           !.wrap[w].aria_disabled = IF disabled THEN "true" ELSE "false"]
            ELSE d
  IN  [d1 EXCEPT !.input = [n \in DOMAIN @ |->
                              IF n \in nodes
                              THEN [disabled |-> disabled, is_disabled |-> disabled]
                              ELSE @[n]]]

\* The onSelect callbacks of `map`.
onSelect(d, name, card) ==
  CASE name = "local-from" -> applyLocalCurrencyFilter(applyLocalToDisables(d), card)
    [] name = "intl-from"  -> applyIntlToCurrencyFilter(d, card)
    [] OTHER -> d

\* Faulty selectCard: the other cards of the rail keep their selected mark.
selectCard_KeepOthers(d, group, i, options) ==
  LET card == d.rails[group][i]
      d1 == [d EXCEPT !.rails[group][i].selected = TRUE]
      d2 == IF options.hiddenId # undefined /\ Has(d, options.hiddenId)
            THEN [d1 EXCEPT !.hid[options.hiddenId] = OrEmpty(card.accountId)]
            ELSE d1
      d3 == IF /\ options.hiddenCurrency # undefined /\ OrEmpty(card.currency) # ""
               /\ Has(d, options.hiddenCurrency)
            THEN [d2 EXCEPT !.hid[options.hiddenCurrency] = card.currency]
            ELSE d2
  IN  IF options.onSelect # undefined
      THEN onSelect(d3, options.onSelect, d3.rails[group][i])
      ELSE d3

\* Faulty selectCard: the callback runs before the hidden fields are written.
selectCard_CallbackFirst(d, group, i, options) ==
  LET card == d.rails[group][i]
      d1 == [d EXCEPT !.rails[group] =
               [j \in DOMAIN @ |-> [@[j] EXCEPT !.selected = (j = i)]]]
      d2 == IF options.onSelect # undefined
            THEN onSelect(d1, options.onSelect, d1.rails[group][i])
            ELSE d1
      d3 == IF options.hiddenId # undefined /\ Has(d, options.hiddenId)
            THEN [d2 EXCEPT !.hid[options.hiddenId] = OrEmpty(card.accountId)]
            ELSE d2
  IN  IF /\ options.hiddenCurrency # undefined /\ OrEmpty(card.currency) # ""
         /\ Has(d, options.hiddenCurrency)
      THEN [d3 EXCEPT !.hid[options.hiddenCurrency] = card.currency]
      ELSE d3

\* Faulty selectCard: the selected mark is cleared on the cards of every rail.
selectCard_AllGroups(d, group, i, options) ==
  LET card == d.rails[group][i]
      d1 == [d EXCEPT !.rails =
               [g \in DOMAIN @ |->
                  [j \in DOMAIN @[g] |->
                     [@[g][j] EXCEPT !.selected = (g = group /\ j = i)]]]]
      d2 == IF options.hiddenId # undefined /\ Has(d, options.hiddenId)
            THEN [d1 EXCEPT !.hid[options.hiddenId] = OrEmpty(card.accountId)]
            ELSE d1
      d3 == IF /\ options.hiddenCurrency # undefined /\ OrEmpty(card.currency) # ""
               /\ Has(d, options.hiddenCurrency)
            THEN [d2 EXCEPT !.hid[options.hiddenCurrency] = card.currency]
            ELSE d2
  IN  IF options.onSelect # undefined
      THEN onSelect(d3, options.onSelect, d3.rails[group][i])
      ELSE d3

\* selectCard(card, options), card being the i-th card of rail `group`.
selectCard(d, group, i, options) ==
  LET card == d.rails[group][i]
      d1 == [d EXCEPT !.rails[group] =
               [j \in DOMAIN @ |-> [@[j] EXCEPT !.selected = (j = i)]]]
      d2 == IF options.hiddenId # undefined /\ Has(d, options.hiddenId)
            THEN [d1 EXCEPT !.hid[options.hiddenId] = OrEmpty(card.accountId)]
            ELSE d1
      d3 == IF /\ options.hiddenCurrency # undefined /\ OrEmpty(card.currency) # ""
               /\ Has(d, options.hiddenCurrency)
            THEN [d2 EXCEPT !.hid[options.hiddenCurrency] = card.currency]
            ELSE d2
  IN  IF options.onSelect # undefined
      THEN onSelect(d3, options.onSelect, d3.rails[group][i])
      ELSE d3

\* Faulty FirstEnabled: the selector lacks :not(.d-none).
FirstEnabled_IgnoreHidden(d, group) ==
  LET ok == { i \in Indices(d, group) : ~d.rails[group][i].disabled }
  IN  IF ok = {} THEN 0 ELSE CHOOSE i \in ok : \A j \in ok : i <= j

\* document.querySelector('#rail-<group> .account-card:not(.d-none):not(.disabled)'):
\* the index of the first match, or 0.
FirstEnabled(d, group) ==
  LET ok == { i \in Indices(d, group) :
                ~d.rails[group][i].d_none /\ ~d.rails[group][i].disabled }
  IN  IF ok = {} THEN 0 ELSE CHOOSE i \in ok : \A j \in ok : i <= j

\* The click listener of rail `group`, the event's target being inside card i.
railClick(d, group, i) ==
  IF d.rails[group][i].disabled THEN d
  ELSE selectCard(d, group, i, map(group))

\* The branch of onIntlSelfChange for a checked checkbox.
onIntlSelfChecked(d) ==
  LET d1 == IF Has(d, "self-bdt-wrap")
            THEN [d EXCEPT !.wrap["self-bdt-wrap"].d_none = FALSE] ELSE d
      d2 == setRecipientDisabled(d1, "", TRUE)
      d3 == filterRailByCurrency(d2, "intl-to", "BDT")
      firstBDT == FirstEnabled(d3, "intl-to")
  IN  IF firstBDT # 0 THEN selectCard(d3, "intl-to", firstBDT, map("intl-to"))
      ELSE d3

\* Faulty unchecked branch: the cards of intl-to keep their selected mark.
onIntlSelfUnchecked_KeepSelected(d) ==
  LET d1 == IF Has(d, "self-bdt-wrap")
            THEN [d EXCEPT !.wrap["self-bdt-wrap"].d_none = TRUE] ELSE d
      d2 == setRecipientDisabled(d1, "", FALSE)
  IN  IF Has(d, "intl-to-id") THEN [d2 EXCEPT !.hid["intl-to-id"] = ""] ELSE d2

\* The branch of onIntlSelfChange for an unchecked checkbox.
onIntlSelfUnchecked(d) ==
  LET d1 == IF Has(d, "self-bdt-wrap")
            THEN [d EXCEPT !.wrap["self-bdt-wrap"].d_none = TRUE] ELSE d
      d2 == setRecipientDisabled(d1, "", FALSE)
      d3 == IF Has(d, "intl-to-id") THEN [d2 EXCEPT !.hid["intl-to-id"] = ""] ELSE d2
  IN  [d3 EXCEPT !.rails["intl-to"] =
         [i \in DOMAIN @ |-> [@[i] EXCEPT !.selected = FALSE]]]

onIntlSelfChange(d) ==
  IF ~Has(d, "chk-self") THEN d
  ELSE IF d.chk["chk-self"] THEN onIntlSelfChecked(d) ELSE onIntlSelfUnchecked(d)

\* Faulty onLocalSelfChange: written after the international handler, it
\* switches the international recipient inputs.
onLocalSelfChange_WrongScope(d) ==
  IF ~Has(d, "local-chk-self") THEN d
  ELSE setRecipientDisabled(d, "", d.chk["local-chk-self"])

\* Faulty onLocalSelfChange: written after the international handler, it
\* also filters the to rail.
onLocalSelfChange_AlsoFilters(d) ==
  IF ~Has(d, "local-chk-self") THEN d
  ELSE filterRailByCurrency(setRecipientDisabled(d, "local-", d.chk["local-chk-self"]),
                            "local-to", "BDT")

onLocalSelfChange(d) ==
  IF ~Has(d, "local-chk-self") THEN d
  ELSE setRecipientDisabled(d, "local-", d.chk["local-chk-self"])

\* scrollRail(group, dir): rail.scrollBy changes the scroll offset of the
\* rail only, which is no part of the state kept here.
scrollRail(d, group, dir) ==
  IF ~Has(d, RailId(group)) THEN d
  ELSE d

\* The optional preselect of one from rail.
preselect(d, group) ==
  LET first == FirstEnabled(d, group)
  IN  IF first # 0 THEN selectCard(d, group, first, map(group)) ELSE d

\* The body of the script, run once on the server-rendered page.
Script(d) ==
  LET d1 == IF Has(d, "chk-self") THEN onIntlSelfChange(d) ELSE d
      d2 == IF Has(d1, "local-chk-self") THEN onLocalSelfChange(d1) ELSE d1
  IN  preselect(preselect(d2, "local-from"), "intl-from")

(***************************************************************************)
(* The state machine                                                       *)
(***************************************************************************)

Dom == [rails |-> rails, hid |-> hid, chk |-> chk, input |-> input, wrap |-> wrap,
        present |-> present, threw |-> threw]

\* The page is the one d describes.
DomIs(d) ==
  /\ rails = d.rails
  /\ hid = d.hid
  /\ chk = d.chk
  /\ input = d.input
  /\ wrap = d.wrap
  /\ present = d.present
  /\ threw = d.threw

\* A page that has every element the script looks up.
Init ==
  \E L \in Layouts, I \in Layouts, c \in [Checkboxes -> BOOLEAN] :
    /\ DomIs(Script(ServerDom(L, I, c, Elements)))
    /\ RecipientsAbsent
    /\ ReorderAbsent
    /\ OverviewAbsent
    /\ AccountsAbsent
    /\ SalaryAbsent

\* The cards of a rail a pointer event can land on: a card with class d-none
\* has display:none, is not rendered and is never the target of a click.
Rendered(group) == { i \in DOMAIN rails[group] : ~rails[group][i].d_none }

\* A click on card i of rail `group`.  (The handler's result is bound once,
\* as the one element of a set, so that it is computed once per step.)
RailClick(group, i) ==
  \E d \in {railClick(Dom, group, i)} :
      /\ RailId(group) \in present
      /\ i \in Rendered(group)
      /\ rails' = d.rails
      /\ hid' = d.hid
      /\ chk' = d.chk
      /\ input' = d.input
      /\ wrap' = d.wrap
      /\ present' = d.present
      /\ threw' = d.threw
      /\ UNCHANGED notTransferVars

\* The user toggles the international self checkbox; its change listener runs.
IntlSelfChange ==
  \E d \in {onIntlSelfChange([Dom EXCEPT !.chk["chk-self"] = ~@])} :
      /\ "chk-self" \in present
      /\ rails' = d.rails
      /\ hid' = d.hid
      /\ chk' = d.chk
      /\ input' = d.input
      /\ wrap' = d.wrap
      /\ present' = d.present
      /\ threw' = d.threw
      /\ UNCHANGED notTransferVars

\* The user toggles the local self checkbox; its change listener runs.
LocalSelfChange ==
  \E d \in {onLocalSelfChange([Dom EXCEPT !.chk["local-chk-self"] = ~@])} :
      /\ "local-chk-self" \in present
      /\ rails' = d.rails
      /\ hid' = d.hid
      /\ chk' = d.chk
      /\ input' = d.input
      /\ wrap' = d.wrap
      /\ present' = d.present
      /\ threw' = d.threw
      /\ UNCHANGED notTransferVars

Next ==
  \/ \E group \in Groups : \E i \in DOMAIN rails[group] : RailClick(group, i)
  \/ IntlSelfChange
  \/ LocalSelfChange

\* A click event dispatched by a script (HTMLElement.click(), dispatchEvent)
\* on card i of rail `group`: such an event reaches the listener whether or
\* not the card is rendered.
DispatchedClick(group, i) ==
  \E d \in {railClick(Dom, group, i)} :
      /\ RailId(group) \in present
      /\ rails' = d.rails
      /\ hid' = d.hid
      /\ chk' = d.chk
      /\ input' = d.input
      /\ wrap' = d.wrap
      /\ present' = d.present
      /\ threw' = d.threw
      /\ UNCHANGED notTransferVars

NextDispatched ==
  \/ \E group \in Groups : \E i \in DOMAIN rails[group] : DispatchedClick(group, i)
  \/ IntlSelfChange
  \/ LocalSelfChange

\* A page on which one of the elements the script looks up is missing and
\* whose four rails list the same accounts.
InitPartial ==
  \E L \in Layouts, c \in [Checkboxes -> BOOLEAN], e \in Elements :
    /\ DomIs(Script(ServerDom(L, L, c, Elements \ {e})))
    /\ RecipientsAbsent
    /\ ReorderAbsent
    /\ OverviewAbsent
    /\ AccountsAbsent
    /\ SalaryAbsent

\* A click on a .rail-btn of rail `group`.
RailBtnClick(group, dir) ==
  \E d \in {scrollRail(Dom, group, dir)} :
      /\ rails' = d.rails
      /\ hid' = d.hid
      /\ chk' = d.chk
      /\ input' = d.input
      /\ wrap' = d.wrap
      /\ present' = d.present
      /\ threw' = d.threw
      /\ UNCHANGED notTransferVars

NextPartial ==
  \/ \E group \in Groups : \E i \in DOMAIN rails[group] : RailClick(group, i)
  \/ IntlSelfChange
  \/ LocalSelfChange
  \/ \E group \in Groups : \E dir \in {"prev", "next"} : RailBtnClick(group, dir)

\* filterRailByCurrency as a function of the rail: the page shows one rail,
\* whose cards carry the classes selected and d-none in any combination.
InitFilter ==
  \E L \in Layouts, g \in Groups :
    \E sel \in SUBSET (1..Cardinality(L)), hidden \in SUBSET (1..Cardinality(L)) :
      /\ DomIs([ServerDom({}, {}, [b \in Checkboxes |-> FALSE], Elements)
                 EXCEPT !.rails[g] = [i \in 1..Cardinality(L) |->
                                        [CardsOf(L)[i] EXCEPT !.selected = (i \in sel),
                                                              !.d_none = (i \in hidden)]]])
      /\ RecipientsAbsent
      /\ ReorderAbsent
      /\ OverviewAbsent
      /\ AccountsAbsent
      /\ SalaryAbsent

\* A call filterRailByCurrency('rail-' + group, allowedCurrency).
FilterCall(group, allowedCurrency) ==
  \E d \in {filterRailByCurrency(Dom, group, allowedCurrency)} :
      /\ rails' = d.rails
      /\ hid' = d.hid
      /\ chk' = d.chk
      /\ input' = d.input
      /\ wrap' = d.wrap
      /\ present' = d.present
      /\ threw' = d.threw
      /\ UNCHANGED notTransferVars

NextFilter ==
  \E group \in Groups :
    \E allowedCurrency \in {"KRW", "krw", "BDT", "bdt", "USD", "usd", "", undefined} :
      FilterCall(group, allowedCurrency)

\* The page with every element, driven by the user.
Spec == Init /\ [][Next]_vars

\* One rail in any state, filtered again and again.
SpecFilter == InitFilter /\ [][NextFilter]_vars

\* The page driven by the user and by scripts that dispatch click events.
SpecDispatched == Init /\ [][NextDispatched]_vars

\* The page with a missing element, driven by the user.
SpecPartial == InitPartial /\ [][NextPartial]_vars

(***************************************************************************)
(* Vocabulary of the properties                                            *)
(***************************************************************************)

Cards(group) == DOMAIN rails[group]
Selected(group) == { i \in Cards(group) : rails[group][i].selected }
Visible(group) == { i \in Cards(group) : ~rails[group][i].d_none }
Disabled(group) == { i \in Cards(group) : rails[group][i].disabled }

FromGroups == {"local-from", "intl-from"}
PairedTo(group) == IF group = "local-from" THEN "local-to" ELSE "intl-to"

\* The currency a card carries, whatever the letter case of its attribute;
\* "" for a card without one.
CurrencyCode(card) ==
  IF card.currency \in {"KRW", "krw"} THEN "KRW"
  ELSE IF card.currency \in {"BDT", "bdt"} THEN "BDT"
  ELSE IF card.currency \in {"USD", "usd"} THEN "USD"
  ELSE ""

WithCurrency(group, code) ==
  { j \in Cards(group) : CurrencyCode(rails[group][j]) = code }

\* The currency the pairing rule asks of the to rail for a from card: the
\* same currency for the local pair, the opposite of KRW/BDT for the
\* international pair; "" when the rule does not restrict the rail.
RuleCurrency(group, card) ==
  IF group = "local-from" THEN CurrencyCode(card)
  ELSE IF CurrencyCode(card) = "KRW" THEN "BDT"
  ELSE IF CurrencyCode(card) = "BDT" THEN "KRW"
  ELSE ""

\* The cards of the paired to rail the pairing rule shows for a from card.
RuleVisible(group, card) ==
  IF RuleCurrency(group, card) = "" THEN Cards(PairedTo(group))
  ELSE WithCurrency(PairedTo(group), RuleCurrency(group, card))

\* The cards the pairing rule shows in the to rail paired with `group` for the
\* from card selected now (every card when none is selected).
RuleVisibleNow(group) ==
  IF Selected(group) = {} THEN Cards(PairedTo(group))
  ELSE RuleVisible(group, rails[group][CHOOSE i \in Selected(group) : TRUE])

\* A click on card i of rail `group` that selects it.
SelectingClick(group, i) == ~rails[group][i].disabled /\ RailClick(group, i)

(***************************************************************************)
(* Properties                                                              *)
(***************************************************************************)

\* C1: in every reachable state each of the four rails has at most one card
\* marked selected.
C1_AtMostOneSelected == \A g \in Groups : Cardinality(Selected(g)) <= 1

\* A click has moved the selection of local-from from its preselected first
\* card to the second card.
C1_Witness ==
  /\ Len(rails["local-from"]) >= 2
  /\ Selected("local-from") = {2}

\* C2: once a local-from card is selected, the disabled local-to cards are
\* exactly those whose account id equals the value of local-from-id, shown
\* or hidden.
C2_LocalToDisabledIsFromId ==
  Selected("local-from") # {} =>
    /\ \A i \in Selected("local-from") :
         hid["local-from-id"] = OrEmpty(rails["local-from"][i].accountId)
    /\ Disabled("local-to") =
         { j \in Cards("local-to") : rails["local-to"][j].accountId = hid["local-from-id"] }

\* The local-from selection was moved to another card; its local-to twin is
\* disabled while a hidden local-to card is not.
C2_Witness ==
  /\ 1 \notin Selected("local-from")
  /\ \E i \in Selected("local-from") :
       \E j \in Disabled("local-to") :
         rails["local-to"][j].accountId = rails["local-from"][i].accountId
  /\ \E j \in Cards("local-to") : j \notin Visible("local-to") /\ j \notin Disabled("local-to")

\* C3: right after a click selects a from card whose currency is known
\* (any currency for local-from, KRW or BDT for intl-from), the paired to rail
\* shows exactly the cards the pairing rule names.
C3_FilterAfterFromClick ==
  [][ \A g \in FromGroups : \A i \in Cards(g) :
        (RuleCurrency(g, rails[g][i]) # "" /\ rails'[g][i].selected /\ SelectingClick(g, i))
          => Visible(PairedTo(g))' = WithCurrency(PairedTo(g), RuleCurrency(g, rails[g][i])) ]_vars

\* A click chose a BDT card in intl-from: intl-to shows its KRW cards and
\* hides the others.
C3_Witness ==
  /\ \E i \in Selected("intl-from") :
       i # 1 /\ CurrencyCode(rails["intl-from"][i]) = "BDT"
  /\ Visible("intl-to") = WithCurrency("intl-to", "KRW")
  /\ Visible("intl-to") # {}
  /\ Visible("intl-to") # Cards("intl-to")

\* C4 as claimed: a click that selects card X leaves X the only selected card
\* of its rail and changes no selected mark in the three other rails.
C4_OtherRailsUntouched ==
  [][ \A g \in Groups : \A i \in Cards(g) :
        SelectingClick(g, i) =>
          /\ Selected(g)' = {i}
          /\ \A h \in Groups \ {g} : Selected(h)' = Selected(h) ]_vars

\* C4 amended: a click that selects card X leaves X the only selected card of
\* its rail; the selected marks of the other rails are unchanged, except that
\* a from-rail click clears the mark of the cards its filter hides in the
\* paired to rail.
C4_OtherRailsUntouchedButHidden ==
  [][ \A g \in Groups : \A i \in Cards(g) :
        SelectingClick(g, i) =>
          /\ Selected(g)' = {i}
          /\ \A h \in Groups \ {g} :
               Selected(h)' = IF g \in FromGroups /\ h = PairedTo(g)
                              THEN Selected(h) \cap Visible(h)'
                              ELSE Selected(h) ]_vars

\* Clicks have selected a card in each of the four rails.
C4_Witness ==
  /\ \A g \in Groups : Cardinality(Selected(g)) = 1
  /\ 1 \notin Selected("local-from")
  /\ 1 \notin Selected("intl-from")

C6_VisibleIsRuleOfFrom ==
  \A g \in FromGroups : Visible(PairedTo(g)) = RuleVisibleNow(g)

\* C6 amended: the visible cards of local-to are the ones the same-currency
\* rule gives for the selected local-from card; the visible cards of intl-to
\* are either the ones the opposite-currency rule gives for the selected
\* intl-from card or exactly the BDT cards, the filter of the self checkbox.
C6_VisibleIsRuleOrSelfFilter ==
  /\ Visible("local-to") = RuleVisibleNow("local-from")
  /\ \/ Visible("intl-to") = RuleVisibleNow("intl-from")
     \/ Visible("intl-to") = WithCurrency("intl-to", "BDT")

\* local-from holds a clicked card and local-to is filtered to its currency,
\* while intl-to shows its BDT cards although the rule for the selected
\* intl-from card would show others.
C6_Witness ==
  /\ 1 \notin Selected("local-from") /\ Selected("local-from") # {}
  /\ Visible("local-to") # Cards("local-to")
  /\ Selected("intl-from") # {}
  /\ Visible("intl-to") # RuleVisibleNow("intl-from")

\* The state the self checkbox of the international form leaves when it
\* becomes checked.
IntlSelfCheckedPost ==
  LET ok == Visible("intl-to") \ Disabled("intl-to")
  IN  /\ input["recipient_id"].disabled
      /\ input["recipient_name"].disabled
      /\ Visible("intl-to") = WithCurrency("intl-to", "BDT")
      /\ ok # {} =>
           LET first == CHOOSE i \in ok : \A j \in ok : i <= j
           IN  /\ Selected("intl-to") = {first}
               /\ hid["intl-to-id"] = OrEmpty(rails["intl-to"][first].accountId)

\* C7: when the international self checkbox becomes checked, the recipient
\* id and name inputs are disabled, intl-to shows exactly its BDT cards, and
\* the first visible enabled card, if any, is selected and named by intl-to-id.
C7_SelfChecked ==
  [][ (IntlSelfChange /\ chk'["chk-self"]) => IntlSelfCheckedPost' ]_vars

\* The checkbox is checked, intl-to shows two BDT cards and the first of
\* them is the selected one, named by intl-to-id.
C7_Witness ==
  /\ chk["chk-self"]
  /\ input["recipient_id"].disabled /\ input["recipient_name"].disabled
  /\ Cardinality(WithCurrency("intl-to", "BDT")) >= 2
  /\ Visible("intl-to") = WithCurrency("intl-to", "BDT")
  /\ Selected("intl-to") = {1}
  /\ hid["intl-to-id"] = rails["intl-to"][1].accountId

\* C8: when the international self checkbox becomes unchecked, the recipient
\* inputs are enabled, intl-to-id is empty, no intl-to card is selected and
\* every intl-to card is hidden or shown as before.
C8_SelfUnchecked ==
  [][ (IntlSelfChange /\ ~chk'["chk-self"]) =>
        /\ ~input'["recipient_id"].disabled
        /\ ~input'["recipient_name"].disabled
        /\ hid'["intl-to-id"] = ""
        /\ Selected("intl-to")' = {}
        /\ Visible("intl-to")' = Visible("intl-to") ]_vars

\* The checkbox is unchecked after having been checked: intl-to still shows
\* only its BDT cards, which the rule for the selected intl-from card would
\* not do, and nothing is selected there.
C8_Witness ==
  /\ ~chk["chk-self"]
  /\ ~input["recipient_id"].disabled
  /\ Selected("intl-from") # {}
  /\ Visible("intl-to") = WithCurrency("intl-to", "BDT")
  /\ Visible("intl-to") # RuleVisibleNow("intl-from")
  /\ Selected("intl-to") = {}
  /\ hid["intl-to-id"] = ""

\* C9: while the international self checkbox is checked, every visible
\* intl-to card has currency BDT.
C9_SelfShowsOnlyBDT ==
  chk["chk-self"] =>
    \A i \in Visible("intl-to") : CurrencyCode(rails["intl-to"][i]) = "BDT"

\* C10: an intl-to card whose account id is the one selected in intl-from is
\* disabled.
C10_IntlToSameAccountDisabled ==
  \A i \in Selected("intl-from") : \A j \in Cards("intl-to") :
    ( /\ rails["intl-from"][i].accountId # undefined
      /\ hid["intl-from-id"] = rails["intl-from"][i].accountId
      /\ rails["intl-to"][j].accountId = hid["intl-from-id"] )
    => rails["intl-to"][j].disabled

\* C11: a click that reaches the listener of a rail on a card that is
\* disabled or hidden changes no card and no hidden field.
C11_BlockedClickIsNoOp ==
  [][ \A g \in Groups : \A i \in Cards(g) :
        (DispatchedClick(g, i) /\ (rails[g][i].disabled \/ rails[g][i].d_none))
          => (rails' = rails /\ hid' = hid) ]_vars

\* The arguments filterRailByCurrency is given.
CurrencyArgs == {"KRW", "krw", "BDT", "bdt", "USD", "usd", "", undefined}

ToIdField(group) == IF group = "local-from" THEN "local-to-id" ELSE "intl-to-id"

\* The selected cards of the to rail paired with `group` that the step hides
\* lose their mark, and the to-id field is left as it was.
HiddenSelectionKeepsField(group) ==
  /\ (Selected(PairedTo(group)) \ Visible(PairedTo(group))') \cap Selected(PairedTo(group))' = {}
  /\ hid'[ToIdField(group)] = hid[ToIdField(group)]

\* C12 as claimed: filterRailByCurrency changes no hidden field, and after a
\* from selection or a change of the international self checkbox has hidden
\* the selected card of a to rail, that card is unselected and the to-id field
\* still holds its account id.
C12_HiddenSelectionKeepsToId ==
  [][ /\ \A g \in Groups : \A c \in CurrencyArgs : filterRailByCurrency(Dom, g, c).hid = hid
      /\ \A g \in FromGroups : \A j \in Selected(PairedTo(g)) :
           ( /\ \/ \E i \in Cards(g) : SelectingClick(g, i)
                \/ (g = "intl-from" /\ IntlSelfChange)
             /\ j \notin Visible(PairedTo(g))' )
           => /\ j \notin Selected(PairedTo(g))'
              /\ hid'[ToIdField(g)] = OrEmpty(rails[PairedTo(g)][j].accountId) ]_vars

\* C12 amended: filterRailByCurrency changes no hidden field; a from
\* selection that hides the selected card of the paired to rail unselects it
\* and leaves the to-id field as it was; the international self checkbox
\* becoming checked leaves intl-to-id as it was only when no BDT card of
\* intl-to is enabled, and otherwise writes the id of the first such card.
C12_HiddenSelectionKeepsToIdUnlessAutoSelect ==
  /\ [](\A g \in Groups : \A c \in CurrencyArgs : filterRailByCurrency(Dom, g, c).hid = hid)
  /\ [][ /\ \A g \in FromGroups :
           HiddenSelectionKeepsField(g) \/ ~(\E i \in Cards(g) : SelectingClick(g, i))
      /\ (chk'["chk-self"] /\ IntlSelfChange) =>
           LET ok == WithCurrency("intl-to", "BDT") \ Disabled("intl-to")
           IN  /\ (Selected("intl-to") \ Visible("intl-to")') \cap Selected("intl-to")' = {}
               /\ hid'["intl-to-id"] =
                    IF ok = {} THEN hid["intl-to-id"]
                    ELSE OrEmpty(rails["intl-to"][CHOOSE i \in ok : \A j \in ok : i <= j].accountId) ]_vars

\* With the self checkbox unchecked, a click in intl-from has hidden the
\* card chosen in intl-to: nothing is selected there and intl-to-id still
\* names the hidden card.
C12_Witness ==
  /\ ~chk["chk-self"]
  /\ 1 \notin Selected("intl-from") /\ Selected("intl-from") # {}
  /\ Selected("intl-to") = {}
  /\ hid["intl-to-id"] # ""
  /\ \E j \in Cards("intl-to") :
       rails["intl-to"][j].d_none /\ rails["intl-to"][j].accountId = hid["intl-to-id"]

\* C13: the international recipient inputs are disabled exactly when
\* chk-self is checked, the local ones exactly when local-chk-self is
\* checked, and neither recipient block is hidden.
C13_RecipientDisabledIffSelf ==
  /\ \A n \in {"recipient_id", "recipient_name"} : input[n].disabled = chk["chk-self"]
  /\ \A n \in {"local-recipient_id", "local-recipient_name"} :
       input[n].disabled = chk["local-chk-self"]
  /\ ~wrap["recipient-wrap"].d_none
  /\ ~wrap["local-recipient-wrap"].d_none

\* The two checkboxes differ and so do the two pairs of inputs; cards have
\* been chosen in both to rails since the page was loaded.
C13_Witness ==
  /\ chk["local-chk-self"] /\ ~chk["chk-self"]
  /\ input["local-recipient_id"].disabled /\ input["local-recipient_name"].disabled
  /\ ~input["recipient_id"].disabled /\ ~input["recipient_name"].disabled
  /\ wrap["local-recipient-wrap"].opacity_75
  /\ Selected("local-to") # {}

\* C14: a change of the local self checkbox leaves every card of the four
\* rails, every hidden field, the international recipient inputs and the
\* international checkbox as they were.
C14_LocalSelfChangesOnlyInputs ==
  [][ LocalSelfChange =>
        /\ rails' = rails
        /\ hid' = hid
        /\ chk'["chk-self"] = chk["chk-self"]
        /\ \A n \in {"recipient_id", "recipient_name"} : input'[n] = input[n]
        /\ \A n \in {"local-recipient_id", "local-recipient_name"} :
             input'[n].disabled = chk'["local-chk-self"] ]_vars

\* The local self checkbox is checked while local-to holds a selected card
\* next to a disabled one.
C14_Witness ==
  /\ chk["local-chk-self"]
  /\ input["local-recipient_id"].disabled
  /\ Selected("local-to") # {}
  /\ Disabled("local-to") # {}
  /\ hid["local-to-id"] # ""

\* C15: after a click selects an intl-from card whose currency is neither KRW
\* nor BDT, or absent, every intl-to card is visible; after a click selects a
\* local-from card without currency, every local-to card is visible.
C15_UnknownCurrencyShowsAll ==
  [][ /\ \A i \in Cards("intl-from") :
           (CurrencyCode(rails["intl-from"][i]) \notin {"KRW", "BDT"}
              /\ SelectingClick("intl-from", i))
             => Visible("intl-to")' = Cards("intl-to")
      /\ \A i \in Cards("local-from") :
           (OrEmpty(rails["local-from"][i].currency) = "" /\ SelectingClick("local-from", i))
             => Visible("local-to")' = Cards("local-to") ]_vars

\* A click moved intl-from to a USD card and local-from to a card without
\* currency; both to rails show all their cards, a BDT card among them.
C15_Witness ==
  /\ \E i \in Selected("intl-from") :
       i # 1 /\ CurrencyCode(rails["intl-from"][i]) = "USD"
  /\ Visible("intl-to") = Cards("intl-to")
  /\ WithCurrency("intl-to", "BDT") # {}
  /\ \E i \in Selected("local-from") :
       i # 1 /\ rails["local-from"][i].currency = undefined
  /\ Visible("local-to") = Cards("local-to")

\* Two arguments that differ at most in letter case.
SameLetters(c1, c2) ==
  \E pair \in {{"KRW", "krw"}, {"BDT", "bdt"}, {"USD", "usd"}, {""}, {undefined}} :
    c1 \in pair /\ c2 \in pair

\* C16: for every state of a rail and every argument, applying
\* filterRailByCurrency twice gives the cards that applying it once gives,
\* and arguments that differ only in letter case give the same cards.
C16_FilterIdempotentCaseInsensitive ==
  \A page \in {Dom} : \A g \in Groups : \A c \in CurrencyArgs :
    \A once \in {filterRailByCurrency(page, g, c)} :
      /\ filterRailByCurrency(once, g, c).rails = once.rails
      /\ \A c2 \in CurrencyArgs :
           SameLetters(c, c2) => filterRailByCurrency(page, g, c2).rails = once.rails

\* intl-to holds a selected KRW card next to a hidden bdt card: the filter
\* for "bdt" hides and unselects the one and shows the other.
C16_Witness ==
  \E i, j \in Cards("intl-to") :
    /\ rails["intl-to"][i].selected /\ CurrencyCode(rails["intl-to"][i]) = "KRW"
    /\ rails["intl-to"][j].d_none /\ rails["intl-to"][j].currency = "bdt"
    /\ LET once == filterRailByCurrency(Dom, "intl-to", "bdt").rails["intl-to"]
       IN  once[i].d_none /\ ~once[i].selected /\ ~once[j].d_none

LocalGroups == {"local-from", "local-to"}
IntlGroups == {"intl-from", "intl-to"}

\* The part of the page that belongs to the local pair.
LocalPart ==
  << rails["local-from"], rails["local-to"], hid["local-from-id"], hid["local-currency"],
     hid["local-to-id"], chk["local-chk-self"], input["local-recipient_id"],
     input["local-recipient_name"], wrap["local-recipient-wrap"] >>

\* The part of the page that belongs to the international pair.
IntlPart ==
  << rails["intl-from"], rails["intl-to"], hid["intl-from-id"], hid["intl-to-id"],
     chk["chk-self"], input["recipient_id"], input["recipient_name"],
     wrap["recipient-wrap"], wrap["self-bdt-wrap"] >>

\* C17: no click in a local rail and no change of the local self checkbox
\* changes the international part of the page, and no click in an
\* international rail and no change of the international self checkbox
\* changes the local part: a step that changes the international part is
\* no local step, a step that changes the local part no international one.
C17_PairsIndependent ==
  [][ /\ \/ IntlPart' = IntlPart
         \/ ~( \/ \E g \in LocalGroups : \E i \in Cards(g) : RailClick(g, i)
               \/ LocalSelfChange )
      /\ \/ LocalPart' = LocalPart
         \/ ~( \/ \E g \in IntlGroups : \E i \in Cards(g) : RailClick(g, i)
               \/ IntlSelfChange ) ]_vars

\* Both pairs have been used: each to rail holds a clicked card and the
\* two self checkboxes differ.
C17_Witness ==
  /\ Selected("local-to") # {} /\ Selected("intl-to") # {}
  /\ 1 \notin Selected("local-from") /\ 1 \notin Selected("intl-from")
  /\ chk["chk-self"] /\ ~chk["local-chk-self"]
  /\ hid["local-to-id"] # hid["intl-to-id"]

ScopeInputs(scopePrefix) ==
  IF scopePrefix = "" THEN {"recipient_id", "recipient_name"}
  ELSE {"local-recipient_id", "local-recipient_name"}

\* C18: on a page that lacks an element, no handler has thrown, and the
\* operation that targets the missing element returns without throwing and
\* leaves every card and hidden field as they are: filterRailByCurrency,
\* showAllCardsInRail and scrollRail for a missing rail, the self handlers
\* for a missing checkbox, setRecipientDisabled for a missing input.
C18_AbsentElementIsNoOp ==
  /\ ~threw
  /\ \A g \in Groups : RailId(g) \notin present =>
       /\ \A c \in CurrencyArgs : filterRailByCurrency(Dom, g, c) = Dom
       /\ showAllCardsInRail(Dom, g) = Dom
       /\ \A dir \in {"prev", "next"} : scrollRail(Dom, g, dir) = Dom
  /\ "chk-self" \notin present => onIntlSelfChange(Dom) = Dom
  /\ "local-chk-self" \notin present => onLocalSelfChange(Dom) = Dom
  /\ \A p \in {"", "local-"} : \A b \in BOOLEAN :
       ~(ScopeInputs(p) \subseteq present) =>
         LET r == setRecipientDisabled(Dom, p, b)
         IN  /\ ~r.threw /\ r.rails = rails /\ r.hid = hid
             /\ \A n \in ScopeInputs(p) \ present : r.input[n] = input[n]

\* The page has no rail-intl-to; the international self checkbox has been
\* checked, which ran the filter on the missing rail, and a card has been
\* clicked in intl-from, which ran it again.
C18_Witness ==
  /\ "rail-intl-to" \notin present
  /\ chk["chk-self"]
  /\ input["recipient_id"].disabled
  /\ Selected("intl-from") # {} /\ 1 \notin Selected("intl-from")

(***************************************************************************)
(* recipients.js: the recipient list and its add, edit and delete requests *)
(***************************************************************************)

\* Largest number of .recipient-item buttons in #recipientList: the server
\* renders at most this many, and the add form is not submitted beyond it.
MaxRecipients == 2

\* The recipients a page may list, in document order, each rendered as a
\* .recipient-item button with data-recipient-id, data-recipient-name and
\* data-recipient-acct; the last one has no data-recipient-id.
RecipientRows == << [id |-> "1", name |-> "Ann", acct |-> "22"],
                    [id |-> undefined, name |-> "Cy", acct |-> ""] >>

\* The JSON bodies a successful response to an add request may carry
\* (data.id, data.name, data.acct): the new recipient.  String(data.id) is
\* the id as written here.
AddResponses == [id : {"7"}, name : {"Zed"}, acct : {"9"}]

\* The JSON bodies a successful response to an edit request sent to the
\* update URL of id `url` may carry: the recipient of that id with its new
\* name and account number.
EditResponses(url) == [id : {OrEmpty(url)}, name : {"Zed"}, acct : {"9"}]

\* How a fetch may settle: the promise rejects; the response has a failure
\* status, with or without ok in its body; the response has a success
\* status and a body without ok (or a body that is not JSON, read as {});
\* the response has a success status and ok in its body.
Outcomes == {"rejected", "http-error", "http-error-ok-body", "no-ok-flag", "ok"}
resOk(outcome) == outcome \in {"no-ok-flag", "ok"}
dataOk(outcome) == outcome \in {"http-error-ok-body", "ok"}

\* The buttons of the list the server renders for the rows S, the row
\* `marked` carrying class active (0: none).  key is the identity of the
\* element.
RECURSIVE ItemsOf(_, _)
ItemsOf(S, marked) ==
  IF S = {} THEN << >>
  ELSE LET k == CHOOSE x \in S : \A y \in S : x <= y
       IN  << [key |-> k, id |-> RecipientRows[k].id,
               name |-> RecipientRows[k].name, acct |-> RecipientRows[k].acct,
               active |-> (k = marked)] >> \o ItemsOf(S \ {k}, marked)

ServerRecipients(S, marked) ==
  [list |-> ItemsOf(S, marked),
   field |-> [recipient_id |-> "", recipient_name |-> ""],
   req |-> [add |-> [sent |-> FALSE],
            edit |-> [sent |-> FALSE, url |-> ""],
            delete |-> [sent |-> FALSE, active |-> 0]],
   btnDisabled |-> [add |-> FALSE, edit |-> FALSE, delete |-> FALSE],
   editAction |-> "",
   alertMsg |-> ""]

\* list.querySelector('.recipient-item.active'): the position of the first
\* active item, 0 for null.
FirstActive(l) ==
  IF \E i \in DOMAIN l : l[i].active
  THEN CHOOSE i \in DOMAIN l : l[i].active /\ \A j \in DOMAIN l : l[j].active => i <= j
  ELSE 0

\* The position of the element `key` in the list, 0 if it is not there.
PositionOf(l, key) ==
  IF \E i \in DOMAIN l : l[i].key = key
  THEN CHOOSE i \in DOMAIN l : l[i].key = key
  ELSE 0

\* document.createElement: an element that is none of the list's.
NewKey(l) ==
  CHOOSE k \in 1..(Len(l) + 1) :
    /\ \A i \in DOMAIN l : l[i].key # k
    /\ \A j \in 1..(k - 1) : \E i \in DOMAIN l : l[i].key = j

applySelection(p, id, name) ==
  [p EXCEPT !.field = [recipient_id |-> id,
                       recipient_name |-> IF id # "" THEN "" ELSE name]]

ensureInitialActive(p) ==
  LET l1 == IF FirstActive(p.list) = 0 /\ Len(p.list) > 0
            THEN [p.list EXCEPT ![1].active = TRUE]
            ELSE p.list
      pick == FirstActive(l1)
      p1 == [p EXCEPT !.list = l1]
  IN  IF pick # 0 THEN applySelection(p1, OrEmpty(l1[pick].id), OrEmpty(l1[pick].name))
      ELSE p1

\* The click listener of the list, for a click inside item i.
listClick(p, i) ==
  LET l1 == [j \in DOMAIN p.list |-> [p.list[j] EXCEPT !.active = (j = i)]]
  IN  applySelection([p EXCEPT !.list = l1], OrEmpty(l1[i].id), OrEmpty(l1[i].name))

\* The submit listener of the add form up to its await: an invalid form is
\* reported and nothing is sent; otherwise the submit button is disabled and
\* the request is sent.
addSubmit(p, valid) ==
  IF ~valid THEN p
  ELSE [p EXCEPT !.btnDisabled.add = TRUE, !.req.add.sent = TRUE]

\* The new button is prepended as the active one, every other item loses
\* class active.
addPatch(p, data) ==
  LET btn == [key |-> NewKey(p.list), id |-> data.id, name |-> data.name,
              acct |-> data.acct, active |-> TRUE]
      others == [j \in DOMAIN p.list |-> [p.list[j] EXCEPT !.active = FALSE]]
  IN  applySelection([p EXCEPT !.list = <<btn>> \o others], data.id, data.name)

\* Faulty add handler: the ok flag of the body is not tested.
addSettled_IgnoresOkFlag(p, outcome, data) ==
  LET done == [p EXCEPT !.btnDisabled.add = FALSE, !.req.add.sent = FALSE]
  IN  IF outcome = "rejected" THEN [done EXCEPT !.alertMsg = "exception"]
      ELSE IF ~resOk(outcome) THEN [done EXCEPT !.alertMsg = "Add failed"]
      ELSE addPatch(done, data)

\* The submit listener of the add form from its await on.
addSettled(p, outcome, data) ==
  LET done == [p EXCEPT !.btnDisabled.add = FALSE, !.req.add.sent = FALSE]
  IN  IF outcome = "rejected" THEN [done EXCEPT !.alertMsg = "exception"]
      ELSE IF ~resOk(outcome) \/ ~dataOk(outcome)
           THEN [done EXCEPT !.alertMsg = "Add failed"]
      ELSE addPatch(done, data)

\* The click listener of the edit button: the edit form's action becomes the
\* update URL of the active item's id.
editBtnClick(p) ==
  LET active == FirstActive(p.list)
  IN  IF active = 0 THEN [p EXCEPT !.alertMsg = "Select a recipient first."]
      ELSE [p EXCEPT !.editAction = p.list[active].id]

\* The submit listener of the edit form up to its await.
editSubmit(p, valid) ==
  IF ~valid THEN p
  ELSE [p EXCEPT !.btnDisabled.edit = TRUE,
                 !.req.edit = [sent |-> TRUE, url |-> p.editAction]]

\* The submit listener of the edit form from its await on.
editSettled(p, outcome, data) ==
  LET done == [p EXCEPT !.btnDisabled.edit = FALSE,
                        !.req.edit = [sent |-> FALSE, url |-> ""]]
      active == FirstActive(p.list)
      patched == IF active = 0 THEN done
                 ELSE [done EXCEPT !.list[active].id = data.id,
                                   !.list[active].name = data.name,
                                   !.list[active].acct = data.acct]
  IN  IF outcome = "rejected" THEN [done EXCEPT !.alertMsg = "exception"]
      ELSE IF ~resOk(outcome) \/ ~dataOk(outcome)
           THEN [done EXCEPT !.alertMsg = "Update failed"]
      ELSE applySelection(patched, data.id, data.name)

\* The click listener of the delete button up to its await; `confirmed` is
\* the answer to the confirm dialog.
deleteClick(p, confirmed) ==
  LET active == FirstActive(p.list)
  IN  IF active = 0 THEN [p EXCEPT !.alertMsg = "Select a recipient first."]
      ELSE IF p.list[active].id \in {undefined, ""}
           THEN [p EXCEPT !.alertMsg = "Invalid recipient id."]
      ELSE IF ~confirmed THEN p
      ELSE [p EXCEPT !.btnDisabled.delete = TRUE,
                     !.req.delete = [sent |-> TRUE, active |-> p.list[active].key]]

\* The list without its item at position i.
RemoveAt(l, i) == [j \in 1..(Len(l) - 1) |-> IF j < i THEN l[j] ELSE l[j + 1]]

\* Faulty delete handler: the button is re-enabled in the try block, not in
\* finally, so a thrown exception leaves it disabled.
deleteSettled_NoFinally(p, outcome) ==
  LET over == [p EXCEPT !.req.delete = [sent |-> FALSE, active |-> 0]]
      done == [over EXCEPT !.btnDisabled.delete = FALSE]
      i == PositionOf(p.list, p.req.delete.active)
      next == IF i = 0 THEN 0
              ELSE IF i < Len(p.list) THEN p.list[i + 1].key
              ELSE IF i > 1 THEN p.list[i - 1].key
              ELSE 0
      removed == IF i = 0 THEN p.list ELSE RemoveAt(p.list, i)
      n == PositionOf(removed, next)
  IN  IF outcome = "rejected" THEN [over EXCEPT !.alertMsg = "exception"]
      ELSE IF ~resOk(outcome) \/ ~dataOk(outcome)
           THEN [done EXCEPT !.alertMsg = "Delete failed"]
      ELSE IF next # 0
           THEN applySelection([done EXCEPT !.list = [removed EXCEPT ![n].active = TRUE]],
                               OrEmpty(removed[n].id), OrEmpty(removed[n].name))
      ELSE applySelection([done EXCEPT !.list = removed], "", "")

\* The click listener of the delete button from its await on: `active` is
\* the element found before the request.
deleteSettled(p, outcome) ==
  LET done == [p EXCEPT !.btnDisabled.delete = FALSE,
                        !.req.delete = [sent |-> FALSE, active |-> 0]]
      i == PositionOf(p.list, p.req.delete.active)
      next == IF i = 0 THEN 0
              ELSE IF i < Len(p.list) THEN p.list[i + 1].key
              ELSE IF i > 1 THEN p.list[i - 1].key
              ELSE 0
      removed == IF i = 0 THEN p.list ELSE RemoveAt(p.list, i)
      n == PositionOf(removed, next)
  IN  IF outcome = "rejected" THEN [done EXCEPT !.alertMsg = "exception"]
      ELSE IF ~resOk(outcome) \/ ~dataOk(outcome)
           THEN [done EXCEPT !.alertMsg = "Delete failed"]
      ELSE IF next # 0
           THEN applySelection([done EXCEPT !.list = [removed EXCEPT ![n].active = TRUE]],
                               OrEmpty(removed[n].id), OrEmpty(removed[n].name))
      ELSE applySelection([done EXCEPT !.list = removed], "", "")

(***************************************************************************)
(* The recipients page as a state machine                                  *)
(***************************************************************************)

Page == [list |-> list, field |-> field, req |-> req, btnDisabled |-> btnDisabled,
         editAction |-> editAction, alertMsg |-> alertMsg]

PageIs(p) ==
  /\ list = p.list
  /\ field = p.field
  /\ req = p.req
  /\ btnDisabled = p.btnDisabled
  /\ editAction = p.editAction
  /\ alertMsg = p.alertMsg

\* A handler of recipients.js has run and left the page as p.
PageBecomes(p) ==
  /\ list' = p.list
  /\ field' = p.field
  /\ req' = p.req
  /\ btnDisabled' = p.btnDisabled
  /\ editAction' = p.editAction
  /\ alertMsg' = p.alertMsg
  /\ UNCHANGED notRecipientVars

\* transfers.js on a page that has none of its elements.
TransfersAbsent ==
  DomIs(Script(ServerDom({}, {}, [b \in Checkboxes |-> FALSE], {})))

RecipientLayouts ==
  {S \in SUBSET DOMAIN RecipientRows : Cardinality(S) <= MaxRecipients}

\* The script has run on the server-rendered list.
InitRecipients ==
  \E S \in RecipientLayouts : \E marked \in S \cup {0} :
    /\ PageIs(ensureInitialActive(ServerRecipients(S, marked)))
    /\ TransfersAbsent
    /\ ReorderAbsent
    /\ OverviewAbsent
    /\ AccountsAbsent
    /\ SalaryAbsent

ListClick(i) ==
  /\ i \in DOMAIN list
  /\ PageBecomes(listClick(Page, i))

AddSubmit(valid) ==
  /\ ~btnDisabled.add
  /\ Len(list) < MaxRecipients
  /\ PageBecomes(addSubmit(Page, valid))

AddSettled(outcome, data) ==
  /\ req.add.sent
  /\ \E p \in {addSettled(Page, outcome, data)} : PageBecomes(p)

EditBtnClick == \E p \in {editBtnClick(Page)} : PageBecomes(p)

EditSubmit(valid) ==
  /\ ~btnDisabled.edit
  /\ PageBecomes(editSubmit(Page, valid))

EditSettled(outcome, data) ==
  /\ req.edit.sent
  /\ \E p \in {editSettled(Page, outcome, data)} : PageBecomes(p)

DeleteClick(confirmed) ==
  /\ ~btnDisabled.delete
  /\ PageBecomes(deleteClick(Page, confirmed))

DeleteSettled(outcome) ==
  /\ req.delete.sent
  /\ \E p \in {deleteSettled(Page, outcome)} : PageBecomes(p)

NextRecipients ==
  \/ \E i \in DOMAIN list : ListClick(i)
  \/ \E valid \in BOOLEAN : AddSubmit(valid)
  \/ \E outcome \in Outcomes : \E data \in AddResponses : AddSettled(outcome, data)
  \/ EditBtnClick
  \/ \E valid \in BOOLEAN : EditSubmit(valid)
  \/ \E outcome \in Outcomes : \E data \in EditResponses(req.edit.url) :
        EditSettled(outcome, data)
  \/ \E confirmed \in BOOLEAN : DeleteClick(confirmed)
  \/ \E outcome \in Outcomes : DeleteSettled(outcome)

\* The recipients page, driven by the user and by the responses.
SpecRecipients == InitRecipients /\ [][NextRecipients]_vars

SubmitStep ==
  \/ \E valid \in BOOLEAN : AddSubmit(valid) \/ EditSubmit(valid)
  \/ \E confirmed \in BOOLEAN : DeleteClick(confirmed)

FailedOutcomes == { o \in Outcomes : ~resOk(o) \/ ~dataOk(o) }

FailedStep ==
  \E outcome \in FailedOutcomes :
    \/ \E data \in AddResponses : AddSettled(outcome, data)
    \/ \E data \in EditResponses(req.edit.url) : EditSettled(outcome, data)
    \/ DeleteSettled(outcome)

\* C19: the step that sends a recipient add, edit or delete request and the
\* step in which the handler finishes after a failure (failure status, body
\* without ok, rejected fetch) both leave the list items, the active item
\* and the recipient_id / recipient_name fields as they are, so with no
\* other action in between they are after the handler what they were before
\* the request.
C19_FailedRequestLeavesUi ==
  [][SubmitStep \/ FailedStep => UNCHANGED <<list, field>>]_vars

\* A delete request has failed: its alert is the last one shown, no request
\* is in flight, and the list still has its two items, one of them active
\* and named in recipient_id.
C19_Witness ==
  /\ alertMsg = "Delete failed"
  /\ ~req.add.sent /\ ~req.edit.sent /\ ~req.delete.sent
  /\ Len(list) = 2
  /\ FirstActive(list) # 0
  /\ field.recipient_id = list[FirstActive(list)].id

(***************************************************************************)
(* accounts_reorder.js: drag-and-drop order of the account cards           *)
(***************************************************************************)

\* Largest number of reorder requests in flight at a time.
MaxInflight == 2

\* The ids of the accounts a page may show, in document order.
AcctIds == <<3, 12, 5>>

\* The data-id attributes of their .acct-card elements in .slider-track, each
\* a string of characters: the id in decimal.
AcctCards == << <<"3">>, <<"1", "2">>, <<"5">> >>

Digits == <<"0", "1", "2", "3", "4", "5", "6", "7", "8", "9">>

IsDigit(ch) == \E v \in DOMAIN Digits : Digits[v] = ch
DigitValue(ch) == (CHOOSE v \in DOMAIN Digits : Digits[v] = ch) - 1

\* The value parseInt yields for a string that starts with no digit.
NaN == -1

\* The number the longest prefix of digits of the characters str denotes,
\* read after the digits whose value is acc.
RECURSIVE parseDigits(_, _)
parseDigits(str, acc) ==
  IF str = << >> \/ ~IsDigit(Head(str)) THEN acc
  ELSE parseDigits(Tail(str), acc * 10 + DigitValue(Head(str)))

\* parseInt(str, 10) for a string without sign and leading white space.
parseInt(str) ==
  IF str = << >> \/ ~IsDigit(Head(str)) THEN NaN ELSE parseDigits(str, 0)

RECURSIVE TrackOf(_)
TrackOf(S) ==
  IF S = {} THEN << >>
  ELSE LET k == CHOOSE x \in S : \A y \in S : x <= y
       IN  <<AcctCards[k]>> \o TrackOf(S \ {k})

\* t: [track, dragging, inflight, lastLog].
ServerTrack(S) ==
  [track |-> TrackOf(S), dragging |-> {}, inflight |-> << >>, lastLog |-> ""]

\* The dragstart listener of `card`.
dragStart(t, card) == [t EXCEPT !.dragging = @ \cup {card}]

\* The value of getCardAfter when no card lies to the right of x.
NoCard == << >>

\* getCardAfter: of the cards that are not being dragged, the one whose
\* centre is nearest to the right of x.  The cards lie from left to right in
\* document order, so x is given as the number of such cards whose centre is
\* not to the right of it.
getCardAfter(t, x) ==
  LET cards == SelectSeq(t.track, LAMBDA c : c \notin t.dragging)
  IN  IF x < Len(cards) THEN cards[x + 1] ELSE NoCard

\* The dragover listener of the track: the first card with class dragging
\* is moved before the card getCardAfter yields, or to the end.
dragOver(t, x) ==
  IF \A i \in DOMAIN t.track : t.track[i] \notin t.dragging THEN t
  ELSE
    LET first == CHOOSE i \in DOMAIN t.track :
                   /\ t.track[i] \in t.dragging
                   /\ \A j \in DOMAIN t.track : t.track[j] \in t.dragging => i <= j
        card == t.track[first]
        rest == [j \in 1..(Len(t.track) - 1) |->
                   IF j < first THEN t.track[j] ELSE t.track[j + 1]]
        after == getCardAfter(t, x)
        at == IF after = NoCard THEN Len(rest) + 1
              ELSE CHOOSE j \in DOMAIN rest : rest[j] = after
    IN  [t EXCEPT !.track = SubSeq(rest, 1, at - 1) \o <<card>>
                              \o SubSeq(rest, at, Len(rest))]

\* Faulty saveOrder: the ids are sent in ascending order.
saveOrder_SortedIds(t) ==
  LET ids == [i \in DOMAIN t.track |-> parseInt(t.track[i])]
      sorted == CHOOSE q \in [DOMAIN ids -> {ids[i] : i \in DOMAIN ids}] :
                  /\ \A i \in DOMAIN ids : \E j \in DOMAIN ids : q[j] = ids[i]
                  /\ \A i, j \in DOMAIN ids : i < j => q[i] <= q[j]
  IN  [t EXCEPT !.inflight = Append(@, [method |-> "POST", url |-> "REORDER_URL",
                                        order |-> sorted])]

\* saveOrder up to its await: the ids of the track's cards are read in
\* document order and sent in one request.
saveOrder(t) ==
  LET ids == [i \in DOMAIN t.track |-> parseInt(t.track[i])]
  IN  [t EXCEPT !.inflight = Append(@, [method |-> "POST", url |-> "REORDER_URL",
                                        order |-> ids])]

\* The dragend listener of `card` up to the await in saveOrder.
dragEnd(t, card) == saveOrder([t EXCEPT !.dragging = @ \ {card}])

\* saveOrder from its await on, for the request at position r of those in
\* flight: a failure is logged, nothing else is done.
saveOrderSettled(t, r, outcome) ==
  LET rest == [j \in 1..(Len(t.inflight) - 1) |->
                 IF j < r THEN t.inflight[j] ELSE t.inflight[j + 1]]
      done == [t EXCEPT !.inflight = rest]
  IN  IF outcome = "rejected" THEN [done EXCEPT !.lastLog = "reorder save error"]
      ELSE IF ~resOk(outcome) THEN [done EXCEPT !.lastLog = "reorder failed"]
      ELSE done

(***************************************************************************)
(* The accounts page as a state machine                                    *)
(***************************************************************************)

Track == [track |-> track, dragging |-> dragging, inflight |-> inflight,
          lastLog |-> lastLog]

TrackIs(t) ==
  /\ track = t.track
  /\ dragging = t.dragging
  /\ inflight = t.inflight
  /\ lastLog = t.lastLog

\* A handler of accounts_reorder.js has run and left the page as t.
TrackBecomes(t) ==
  /\ track' = t.track
  /\ dragging' = t.dragging
  /\ inflight' = t.inflight
  /\ lastLog' = t.lastLog
  /\ UNCHANGED notReorderVars

\* DOMContentLoaded has fired on a page whose track holds some of the cards.
InitReorder ==
  \E S \in SUBSET DOMAIN AcctCards :
    /\ TrackIs(ServerTrack(S))
    /\ TransfersAbsent
    /\ RecipientsAbsent
    /\ OverviewAbsent
    /\ AccountsAbsent
    /\ SalaryAbsent

\* The user starts to drag `card`; one drag is in progress at a time.
DragStart(card) ==
  /\ dragging = {}
  /\ TrackBecomes(dragStart(Track, card))

\* The pointer moves over the track during the drag.
DragOver(x) ==
  /\ dragging # {}
  /\ TrackBecomes(dragOver(Track, x))

\* The drag of `card` ends.
DragEnd(card) ==
  /\ card \in dragging
  /\ Len(inflight) < MaxInflight
  /\ TrackBecomes(dragEnd(Track, card))

\* The request at position r settles.
SaveOrderSettled(r, outcome) ==
  /\ r \in DOMAIN inflight
  /\ TrackBecomes(saveOrderSettled(Track, r, outcome))

NextReorder ==
  \/ \E i \in DOMAIN track : DragStart(track[i])
  \/ \E x \in 0..Len(track) : DragOver(x)
  \/ \E i \in DOMAIN track : DragEnd(track[i])
  \/ \E r \in DOMAIN inflight : \E outcome \in Outcomes : SaveOrderSettled(r, outcome)

\* The accounts page, driven by the user and by the responses.
SpecReorder == InitReorder /\ [][NextReorder]_vars

\* The id of the account a card of the track shows.
IdOf(card) == AcctIds[CHOOSE k \in DOMAIN AcctCards : AcctCards[k] = card]

AnyDragEnd == \E i \in DOMAIN track : DragEnd(track[i])

FailedSave ==
  \E r \in DOMAIN inflight : \E outcome \in Outcomes :
    /\ outcome = "rejected" \/ ~resOk(outcome)
    /\ SaveOrderSettled(r, outcome)

\* C20: a dragend adds exactly one request to those in flight, a POST to the
\* reorder URL whose order lists the account ids of the track's cards in
\* their document order, and leaves that order as it is; no other step sends
\* a request; the step in which a request fails removes it, sends none and
\* leaves the order of the track as it is.
C20_OnePostPerDragEnd ==
  [][/\ AnyDragEnd =>
          /\ track' = track
          /\ inflight' = Append(inflight,
                                [method |-> "POST", url |-> "REORDER_URL",
                                 order |-> [i \in DOMAIN track |-> IdOf(track[i])]])
     /\ ~AnyDragEnd => Len(inflight') <= Len(inflight)
     /\ FailedSave => /\ track' = track
                      /\ Len(inflight') = Len(inflight) - 1]_vars

\* The second card has been dragged before the first and dropped, and the
\* request that carried the new order has failed: the track keeps the new
\* order and nothing is in flight.
C20_Witness ==
  /\ track = <<AcctCards[2], AcctCards[1]>>
  /\ dragging = {}
  /\ inflight = << >>
  /\ lastLog = "reorder failed"

\* C21: local-from-id and local-to-id never hold the same non-empty account
\* id, and no card of local-to is both selected and disabled.
C21_LocalFromToDiffer ==
  /\ hid["local-from-id"] # "" => hid["local-from-id"] # hid["local-to-id"]
  /\ Selected("local-to") \cap Disabled("local-to") = {}

(***************************************************************************)
(* The recipients page listing three recipients                           *)
(***************************************************************************)

\* A third recipient the server may list after those of RecipientRows.
ThirdRow == [id |-> "3", name |-> "Dee", acct |-> ""]

\* The page the server renders for the two RecipientRows followed by
\* ThirdRow, the item `marked` carrying class active (0: none).
ServerThreeRecipients(marked) ==
  [ServerRecipients(DOMAIN RecipientRows, marked) EXCEPT
     !.list = @ \o << [key |-> Len(@) + 1, id |-> ThirdRow.id, name |-> ThirdRow.name,
                       acct |-> ThirdRow.acct, active |-> (marked = Len(@) + 1)] >>]

InitThreeRecipients ==
  \E marked \in 0..(Len(RecipientRows) + 1) :
    /\ PageIs(ensureInitialActive(ServerThreeRecipients(marked)))
    /\ TransfersAbsent
    /\ ReorderAbsent
    /\ OverviewAbsent
    /\ AccountsAbsent
    /\ SalaryAbsent

SpecThreeRecipients == InitThreeRecipients /\ [][NextRecipients]_vars

Active == { i \in DOMAIN list : list[i].active }

\* C22: at most one item of the recipient list is active.
C22_AtMostOneActive == Cardinality(Active) <= 1

\* C23: a successful edit response writes its id, name and account data to
\* the list item prefilled into the edit form (the one whose id the request
\* was sent for) and leaves every other list item as it is.
C23_EditPatchesPrefilledItem ==
  [][\A data \in EditResponses(req.edit.url) :
       (req.edit.url # "" /\ EditSettled("ok", data))
         => \A i \in DOMAIN list :
              IF list[i].id = req.edit.url
              THEN /\ list'[i].id = data.id
                   /\ list'[i].name = data.name
                   /\ list'[i].acct = data.acct
              ELSE list'[i] = list[i]]_vars

\* Every request in flight eventually settles.
SpecRecipientsFair ==
  /\ SpecRecipients
  /\ WF_vars(\E outcome \in Outcomes, data \in AddResponses : AddSettled(outcome, data))
  /\ WF_vars(\E outcome \in Outcomes, data \in EditResponses(req.edit.url) :
               EditSettled(outcome, data))
  /\ WF_vars(\E outcome \in Outcomes : DeleteSettled(outcome))

Requests == {"add", "edit", "delete"}

\* C29: while an add, edit or delete request is in flight its triggering
\* button is disabled, and whatever the outcome of the request the button
\* is enabled again: at every moment each button is enabled now or will be
\* later.
C29_ButtonDisabledWhileInFlight ==
  /\ [](\A op \in Requests : req[op].sent => btnDisabled[op])
  /\ \A op \in Requests : []<>~btnDisabled[op]

\* A delete request has ended in a thrown exception and all three buttons
\* are enabled again.
C29_Witness ==
  /\ alertMsg = "exception"
  /\ \A op \in Requests : ~req[op].sent /\ ~btnDisabled[op]
  /\ Len(list) = 2

(***************************************************************************)
(* transaction.js: the send-overview page                                  *)
(***************************************************************************)

\* Largest number of overview requests in flight at once.
MaxLoads == 2

MONTHS == << "January", "February", "March", "April", "May", "June",
             "July", "August", "September", "October", "November", "December" >>

monthName(m) == MONTHS[m]

\* The dates new Date() may yield when the script runs.
Nows == { [year |-> 2026, month |-> 11], [year |-> 2027, month |-> 1] }

\* The year select after populateYears: the current year and the five
\* before it, the current year chosen.
populateYears(curY) == [options |-> (curY - 5)..curY, value |-> curY]

\* The month select after populateMonths: "All Months" (value '', read as
\* no month: 0 here) and the twelve months, the current month chosen.
populateMonths(curM) == [options |-> 0..12, value |-> curM]

\* What /api/send_overview answers for a year and a month (0: none): the
\* totals of that period, which echo the period they are for.
Payload(year, month) ==
  [year |-> year, month |-> month,
   total_sent |-> <<"total", year, month>>,
   monthly |-> <<"monthly", year>>,
   recipients |-> <<"recipients", year, month>>]

OverviewOutcomes == {"rejected", "http-error", "ok"}

\* load() up to its await: the request for the filters' current values.
load(o) ==
  [o EXCEPT !.loads = Append(@, [year |-> o.yearSel.value, month |-> o.monthSel.value])]

\* load() from its await on, for the i-th request in flight.
loadSettled(o, i, outcome) ==
  LET r == o.loads[i]
      payload == Payload(r.year, r.month)
      rest == SubSeq(o.loads, 1, i - 1) \o SubSeq(o.loads, i + 1, Len(o.loads))
      done == [o EXCEPT !.loads = rest]
  IN  IF outcome # "ok" THEN [done EXCEPT !.overviewLog = "fetch failed"]
      ELSE [done EXCEPT
              !.kpi = [amount |-> payload.total_sent,
                       period |-> IF payload.month # 0
                                  THEN <<monthName(payload.month), payload.year>>
                                  ELSE <<payload.year>>],
              !.lineChart = payload.monthly,
              !.barChart = payload.recipients]

\* The page before the script runs: empty selects, no chart.
ServerOverview ==
  [yearSel |-> [options |-> {}, value |-> 0], monthSel |-> [options |-> {}, value |-> 0],
   kpi |-> << >>, lineChart |-> << >>, barChart |-> << >>, loads |-> << >>,
   overviewLog |-> ""]

\* The script run to its end at the date `now`.
OverviewScript(o, now) ==
  load([o EXCEPT !.yearSel = populateYears(now.year),
                 !.monthSel = populateMonths(now.month)])

Overview == [yearSel |-> yearSel, monthSel |-> monthSel, kpi |-> kpi,
             lineChart |-> lineChart, barChart |-> barChart, loads |-> loads,
             overviewLog |-> overviewLog]

OverviewBecomes(o) ==
  /\ yearSel' = o.yearSel
  /\ monthSel' = o.monthSel
  /\ kpi' = o.kpi
  /\ lineChart' = o.lineChart
  /\ barChart' = o.barChart
  /\ loads' = o.loads
  /\ overviewLog' = o.overviewLog
  /\ UNCHANGED notOverviewVars

InitOverview ==
  \E now \in Nows :
    /\ \E o \in {OverviewScript(ServerOverview, now)} :
         /\ yearSel = o.yearSel
         /\ monthSel = o.monthSel
         /\ kpi = o.kpi
         /\ lineChart = o.lineChart
         /\ barChart = o.barChart
         /\ loads = o.loads
         /\ overviewLog = o.overviewLog
    /\ TransfersAbsent
    /\ RecipientsAbsent
    /\ ReorderAbsent
    /\ AccountsAbsent
    /\ SalaryAbsent

\* The years and months the user picks: the two latest years; all months,
\* January and November.
YearChoices == { y \in yearSel.options : y >= 2026 }
MonthChoices == { m \in monthSel.options : m \in {0, 1, 11} }

\* The user picks another year: change event, load().
YearChange(y) ==
  /\ y # yearSel.value
  /\ Len(loads) < MaxLoads
  /\ \E o \in {load([Overview EXCEPT !.yearSel.value = y])} : OverviewBecomes(o)

\* The user picks another month: change event, load().
MonthChange(m) ==
  /\ m # monthSel.value
  /\ Len(loads) < MaxLoads
  /\ \E o \in {load([Overview EXCEPT !.monthSel.value = m])} : OverviewBecomes(o)

\* The response to one of the requests in flight arrives.
LoadSettled(i, outcome) ==
  \E o \in {loadSettled(Overview, i, outcome)} : OverviewBecomes(o)

NextOverview ==
  \/ \E y \in YearChoices : YearChange(y)
  \/ \E m \in MonthChoices : MonthChange(m)
  \/ \E i \in DOMAIN loads, outcome \in OverviewOutcomes : LoadSettled(i, outcome)

SpecOverview == InitOverview /\ [][NextOverview]_vars

\* C24: when no overview request is outstanding and none has failed, the
\* KPI and both charts show the data of the year and month selected in the
\* filters.
C24_ShowsSelectedPeriod ==
  (loads = << >> /\ overviewLog = "")
    => \E shown \in {Payload(yearSel.value, monthSel.value)} :
         /\ kpi # << >>
         /\ kpi.amount = shown.total_sent
         /\ lineChart = shown.monthly
         /\ barChart = shown.recipients

(***************************************************************************)
(* unnamed/part_003: the accounts page                                     *)
(***************************************************************************)

\* Largest number of account cards on the page.
MaxAccts == 2

\* The account cards a page may show, in document order: data-id,
\* data-type, class is-inactive, data-active, and data-pending (absent, or
\* an amount in hundredths).  An inactive card's radio is disabled.
AcctPool ==
  << [id |-> "1", type |-> "credit", isInactive |-> FALSE, active |-> "1",
      pending |-> [present |-> TRUE, cents |-> 25050]],
     [id |-> "2", type |-> "bank", isInactive |-> FALSE, active |-> "1",
      pending |-> [present |-> FALSE, cents |-> 0]],
     [id |-> "3", type |-> "credit", isInactive |-> TRUE, active |-> "0",
      pending |-> [present |-> TRUE, cents |-> 900]],
     [id |-> "4", type |-> undefined, isInactive |-> FALSE, active |-> "0",
      pending |-> [present |-> FALSE, cents |-> 0]] >>

AcctLayouts == { S \in SUBSET DOMAIN AcctPool : Cardinality(S) \in 1..MaxAccts }

AcctCardsOf(S) ==
  LET F[T \in SUBSET S] ==
        IF T = {} THEN << >>
        ELSE LET k == CHOOSE x \in T : \A y \in T : x <= y
             IN  <<AcctPool[k]>> \o F[T \ {k}]
  IN  F[S]

\* Number(card.dataset.pending || 0), in hundredths.
NumberOrZero(v) == IF v.present THEN v.cents ELSE 0

\* n.toFixed(2) of an amount in hundredths: the digits before and after
\* the point.
toFixed2(n) == <<n \div 100, n % 100>>

\* document.querySelector('.acct-card.active'): the first card with class
\* active, 0 if there is none.
getActiveCard(a) ==
  IF a.activeCls = {} THEN 0
  ELSE CHOOSE i \in a.activeCls : \A j \in a.activeCls : i <= j

\* getSelectedCard: the card of the checked radio, else the first card.
getSelectedCard(a) ==
  IF a.checkedRadio # 0 THEN a.checkedRadio
  ELSE IF a.acctCards # << >> THEN 1 ELSE 0

prefillEditFrom(a, c) ==
  IF c = 0 THEN a
  ELSE [a EXCEPT !.accEdit = [id |-> OrEmpty(a.acctCards[c].id),
                              active |-> a.acctCards[c].active \in {"1", "true"}]]

refreshLimitButtonState(a) ==
  LET card == getActiveCard(a)
  IN  IF card = 0 THEN [a EXCEPT !.toolDisabled.limit = TRUE]
      ELSE [a EXCEPT !.toolDisabled.limit = (a.acctCards[card].type # "credit")]

refreshSettleButton(a) ==
  LET card == getActiveCard(a)
  IN  IF card = 0 THEN [a EXCEPT !.toolDisabled.settle = TRUE]
      ELSE [a EXCEPT !.toolDisabled.settle = (a.acctCards[card].type # "credit")]

\* Faulty refresh of Set Balance: the test of the other two buttons.
refreshBalanceButton_LikeLimit(a) ==
  LET card == getActiveCard(a)
  IN  IF card = 0 THEN [a EXCEPT !.toolDisabled.balance = TRUE]
      ELSE [a EXCEPT !.toolDisabled.balance = (a.acctCards[card].type # "credit")]

refreshBalanceButton(a) ==
  LET card == getActiveCard(a)
  IN  IF card = 0 THEN [a EXCEPT !.toolDisabled.balance = TRUE]
      ELSE [a EXCEPT !.toolDisabled.balance = (a.acctCards[card].type = "credit")]

Timers == {"limit", "settle", "balance"}

\* A deferred refresh runs.
runTimer(a, t) ==
  LET b == [a EXCEPT !.timers = @ \ {t}]
  IN  IF t = "limit" THEN refreshLimitButtonState(b)
      ELSE IF t = "settle" THEN refreshSettleButton(b)
      ELSE refreshBalanceButton(b)

\* The card's own click listener: its radio is checked (the radios are one
\* group), it alone carries class active.
cardListener(a, i) == [a EXCEPT !.checkedRadio = i, !.activeCls = {i}]

\* The three document click listeners that defer a refresh.
deferRefreshes(a) == [a EXCEPT !.timers = Timers]

\* The document click listener for inactive cards: prefill, then show the
\* Edit Account modal, whose show.bs.modal listener prefills again from the
\* selected card.
inactiveCardListener(a, i) ==
  LET card == a.acctCards[i]
  IN  IF card.isInactive \/ card.active = "0"
      THEN prefillEditFrom([a EXCEPT !.accEdit = [id |-> OrEmpty(card.id), active |-> FALSE],
                                     !.modalShown = "edit"],
                           getSelectedCard(a))
      ELSE a

\* A click on card i: the card's listener, then the document's listeners.
cardClick(a, i) == inactiveCardListener(deferRefreshes(cardListener(a, i)), i)

\* The first card without class is-inactive whose radio is not disabled,
\* 0 if there is none.
firstVisibleRadio(a) ==
  LET vis == { i \in DOMAIN a.acctCards : ~a.acctCards[i].isInactive }
  IN  IF vis = {} THEN 0 ELSE CHOOSE i \in vis : \A j \in vis : i <= j

\* The click listener of #toggle-inactive-btn.
toggleInactive(a) ==
  IF a.showInactive
  THEN LET visChecked == a.checkedRadio # 0 /\ ~a.acctCards[a.checkedRadio].isInactive
           firstVis == firstVisibleRadio(a)
       IN  IF ~visChecked /\ firstVis # 0
           THEN [a EXCEPT !.showInactive = FALSE, !.checkedRadio = firstVis]
           ELSE [a EXCEPT !.showInactive = FALSE]
  ELSE [a EXCEPT !.showInactive = TRUE]

\* show.bs.modal of the settle modal.
settleShow(a) ==
  LET card == getActiveCard(a)
      shown == [a EXCEPT !.modalShown = "settle"]
  IN  IF card = 0 THEN shown
      ELSE [shown EXCEPT !.settle.cardId = a.acctCards[card].id,
                         !.settle.full = TRUE,
                         !.settle.amount = toFixed2(NumberOrZero(a.acctCards[card].pending))]

\* The change listener of the full-settlement switch, the switch now being
\* `checked`.
fullChange(a, checked) ==
  LET card == getActiveCard(a)
      pending == IF card = 0 THEN 0 ELSE NumberOrZero(a.acctCards[card].pending)
  IN  IF checked
      THEN [a EXCEPT !.settle.full = TRUE, !.settle.amount = toFixed2(pending),
                     !.settle.readOnly = TRUE]
      ELSE [a EXCEPT !.settle.full = FALSE, !.settle.readOnly = FALSE]

\* The page the server renders: card `c` (0: none) carries class active and
\* the checked radio; the settle modal has its switch checked and its
\* amount read-only; inactive cards are hidden.
ServerAccounts(S, c) ==
  [acctCards |-> AcctCardsOf(S),
   activeCls |-> IF c = 0 THEN {} ELSE {c},
   checkedRadio |-> c,
   showInactive |-> FALSE,
   modalShown |-> "",
   toolDisabled |-> [limit |-> FALSE, settle |-> FALSE, balance |-> FALSE],
   timers |-> {},
   settle |-> [cardId |-> "", full |-> TRUE, amount |-> << >>, readOnly |-> TRUE],
   accEdit |-> [id |-> "", active |-> FALSE]]

\* The scripts run to their end: each refreshes its button once.
AccountsScript(a) ==
  refreshBalanceButton(refreshSettleButton(refreshLimitButtonState(a)))

AccountsPage ==
  [acctCards |-> acctCards, activeCls |-> activeCls, checkedRadio |-> checkedRadio,
   showInactive |-> showInactive, modalShown |-> modalShown,
   toolDisabled |-> toolDisabled, timers |-> timers, settle |-> settle,
   accEdit |-> accEdit]

AccountsIs(a) ==
  /\ acctCards = a.acctCards
  /\ activeCls = a.activeCls
  /\ checkedRadio = a.checkedRadio
  /\ showInactive = a.showInactive
  /\ modalShown = a.modalShown
  /\ toolDisabled = a.toolDisabled
  /\ timers = a.timers
  /\ settle = a.settle
  /\ accEdit = a.accEdit

AccountsBecomes(a) ==
  /\ acctCards' = a.acctCards
  /\ activeCls' = a.activeCls
  /\ checkedRadio' = a.checkedRadio
  /\ showInactive' = a.showInactive
  /\ modalShown' = a.modalShown
  /\ toolDisabled' = a.toolDisabled
  /\ timers' = a.timers
  /\ settle' = a.settle
  /\ accEdit' = a.accEdit
  /\ UNCHANGED notAccountsVars

InitAccounts ==
  \E S \in AcctLayouts :
    \E c \in {0} \cup { i \in 1..Cardinality(S) : ~AcctCardsOf(S)[i].isInactive } :
      /\ \E a \in {AccountsScript(ServerAccounts(S, c))} : AccountsIs(a)
      /\ TransfersAbsent
      /\ RecipientsAbsent
      /\ ReorderAbsent
      /\ OverviewAbsent
      /\ SalaryAbsent

\* The user clicks a card he can see, no modal being in the way.
CardClick(i) ==
  /\ modalShown = ""
  /\ showInactive \/ ~acctCards[i].isInactive
  /\ \E a \in {cardClick(AccountsPage, i)} : AccountsBecomes(a)

RunTimer(t) ==
  \E a \in {runTimer(AccountsPage, t)} : AccountsBecomes(a)

ToggleInactive ==
  /\ modalShown = ""
  /\ \E a \in {toggleInactive(AccountsPage)} : AccountsBecomes(a)

\* The user opens the settle modal with the Settle button.
SettleShow ==
  /\ modalShown = ""
  /\ ~toolDisabled.settle
  /\ \E a \in {settleShow(AccountsPage)} : AccountsBecomes(a)

\* The user flips the full-settlement switch of the shown settle modal.
FullChange ==
  /\ modalShown = "settle"
  /\ \E a \in {fullChange(AccountsPage, ~settle.full)} : AccountsBecomes(a)

\* The user closes the modal.
ModalHide ==
  /\ modalShown # ""
  /\ \E a \in {[AccountsPage EXCEPT !.modalShown = ""]} : AccountsBecomes(a)

NextAccounts ==
  \/ \E i \in DOMAIN acctCards : CardClick(i)
  \/ \E t \in timers : RunTimer(t)
  \/ ToggleInactive
  \/ SettleShow
  \/ FullChange
  \/ ModalHide

SpecAccounts == InitAccounts /\ [][NextAccounts]_vars

\* C25: a click on an account card that is inactive (class is-inactive or
\* data-active "0") shows the Edit Account modal and leaves the active
\* class and the checked radio where they were.
C25_InactiveClickKeepsSelection ==
  [][\A i \in DOMAIN acctCards :
       (CardClick(i) /\ (acctCards[i].isInactive \/ acctCards[i].active = "0"))
         => /\ modalShown' = "edit"
            /\ UNCHANGED <<activeCls, checkedRadio>>]_vars

\* C26: when a card carries class active (as it does from the first card
\* click on), it is the one card carrying it and its radio is the checked
\* one.
C26_CheckedIsActive ==
  activeCls # {} => activeCls = {checkedRadio}

\* C27: after the settle modal is shown for an active card, and after a
\* change of its switch, a checked full-settlement switch comes with a
\* read-only amount equal to the active card's pending amount.
C27_FullSettlementAmount ==
  [][((SettleShow \/ FullChange) /\ activeCls # {} /\ settle'.full)
       => /\ settle'.readOnly
          /\ settle'.amount =
               toFixed2(NumberOrZero(acctCards[getActiveCard(AccountsPage)].pending))]_vars

\* C28: when no refresh is pending, Set Limit and Settle are enabled exactly
\* when there is an active card of type credit, Set Balance is enabled
\* exactly when there is an active card whose type is not credit, and Set
\* Limit and Set Balance are not both enabled.
C28_ToolButtons ==
  timers = {} =>
    \E card \in {getActiveCard(AccountsPage)} :
      \E credit \in {card # 0 /\ acctCards[card].type = "credit"} :
        /\ ~toolDisabled.limit <=> credit
        /\ ~toolDisabled.settle <=> credit
        /\ ~toolDisabled.balance <=> (card # 0 /\ ~credit)
        /\ toolDisabled.limit \/ toolDisabled.balance

\* An inactive credit card has been clicked and the refreshes have run: it
\* is the active card, Set Limit and Settle are enabled, Set Balance is
\* not.
C28_Witness ==
  /\ timers = {}
  /\ \E i \in DOMAIN acctCards :
       /\ activeCls = {i}
       /\ acctCards[i].isInactive
       /\ acctCards[i].type = "credit"
  /\ ~toolDisabled.limit /\ ~toolDisabled.settle /\ toolDisabled.balance

(***************************************************************************)
(* salary.js: the salary adjustment table                                  *)
(***************************************************************************)

\* Largest number of rows in the adjustment table.
MaxAdjRows == 1

\* Largest number of save requests in flight at once.
MaxSaving == 1

\* The adjustments the server may list: data-adj-id and the values its
\* edit template carries.
AdjPool == << [id |-> "1", kind |-> "allowance", label |-> "Meal", amount |-> "1000"],
              [id |-> "2", kind |-> "deduction", label |-> "Tax", amount |-> "250"] >>

\* What the user may choose or type in the inputs of a row being edited.
KindInputs == {"allowance", "deduction"}
LabelInputs == {"", "Bonus"}
AmountInputs == {"250", "1000"}

\* Number(n).toLocaleString("en-US") + "₩".
formatKRW(n) ==
  CASE n = "250" -> "250₩"
    [] n = "1000" -> "1,000₩"
    [] OTHER -> n \o "₩"

kindBadge(kind) ==
  IF kind = "allowance" THEN <<"badge", "text-bg-success", "Allowance">>
  ELSE <<"badge", "text-bg-danger", "Deduction">>

amountHtml(kind, amount) ==
  <<IF kind = "allowance" THEN "+" ELSE "-", formatKRW(amount)>>

\* The three display cells the save handler builds from a response.
savedCells(data) ==
  << [className |-> {"cell-kind"}, innerHTML |-> kindBadge(data.kind)],
     [className |-> {"cell-label", "text-muted"}, innerHTML |-> <<data.label>>],
     [className |-> {"cell-amount", "text-end", "fw-semibold",
                     IF data.kind = "allowance" THEN "text-success" ELSE "text-danger"},
      innerHTML |-> amountHtml(data.kind, data.amount)] >>

\* The three cells of a row as the server renders them, with the classes
\* the cancel handler restores.
serverCells(adj) ==
  << [className |-> {"cell-kind"}, innerHTML |-> kindBadge(adj.kind)],
     [className |-> {"cell-label", "text-muted"}, innerHTML |-> <<adj.label>>],
     [className |-> {"cell-amount", "text-end", "fw-semibold"},
      innerHTML |-> amountHtml(adj.kind, adj.amount)] >>

\* The three cells of template.edit-template: one input each.
templateCells ==
  << [className |-> {}, innerHTML |-> <<"select", "inp-kind">>],
     [className |-> {}, innerHTML |-> <<"input", "inp-label">>],
     [className |-> {}, innerHTML |-> <<"input", "inp-amount">>] >>

NoOrig == [kind |-> << >>, label |-> << >>, amount |-> << >>]

ServerRow(adj) ==
  [id |-> adj.id,
   tpl |-> [kind |-> adj.kind, label |-> adj.label, amount |-> adj.amount],
   cells |-> serverCells(adj),
   orig |-> NoOrig,
   inputs |-> [kind |-> "", label |-> "", amount |-> ""],
   hidden |-> [edit |-> FALSE, cancel |-> TRUE, save |-> TRUE]]

\* Click on .btn-edit of a row.
editClick(row) ==
  [row EXCEPT !.orig = [kind |-> row.cells[1].innerHTML,
                        label |-> row.cells[2].innerHTML,
                        amount |-> row.cells[3].innerHTML],
              !.cells = templateCells,
              !.inputs = row.tpl,
              !.hidden = [edit |-> TRUE, cancel |-> FALSE, save |-> FALSE]]

\* Click on .btn-cancel of a row.
cancelClick(row) ==
  [row EXCEPT !.cells = << [className |-> {"cell-kind"}, innerHTML |-> row.orig.kind],
                           [className |-> {"cell-label", "text-muted"},
                            innerHTML |-> row.orig.label],
                           [className |-> {"cell-amount", "text-end", "fw-semibold"},
                            innerHTML |-> row.orig.amount] >>,
              !.hidden = [edit |-> FALSE, cancel |-> TRUE, save |-> TRUE]]

\* The save handler from its await on, for the response `data`.
saveSettled(row, ok, data) ==
  IF ~ok THEN row
  ELSE [row EXCEPT !.cells = savedCells(data),
                   !.hidden = [edit |-> FALSE, cancel |-> TRUE, save |-> TRUE]]

AdjLayouts == { S \in SUBSET DOMAIN AdjPool : Cardinality(S) \in 1..MaxAdjRows }

AdjRowsOf(S) ==
  LET F[T \in SUBSET S] ==
        IF T = {} THEN << >>
        ELSE LET k == CHOOSE x \in T : \A y \in T : x <= y
             IN  <<ServerRow(AdjPool[k])>> \o F[T \ {k}]
  IN  F[S]

InitSalary ==
  \E S \in AdjLayouts :
    /\ adjRows = AdjRowsOf(S)
    /\ saving = {}
    /\ TransfersAbsent
    /\ RecipientsAbsent
    /\ ReorderAbsent
    /\ OverviewAbsent
    /\ AccountsAbsent

EditClick(r) ==
  /\ ~adjRows[r].hidden.edit
  /\ adjRows' = [adjRows EXCEPT ![r] = editClick(@)]
  /\ UNCHANGED saving
  /\ UNCHANGED notSalaryVars

CancelClick(r) ==
  /\ ~adjRows[r].hidden.cancel
  /\ adjRows' = [adjRows EXCEPT ![r] = cancelClick(@)]
  /\ UNCHANGED saving
  /\ UNCHANGED notSalaryVars

\* The user changes the inputs of a row being edited.
InputChange(r, kind, label, amount) ==
  /\ adjRows[r].cells = templateCells
  /\ adjRows' = [adjRows EXCEPT ![r].inputs = [kind |-> kind, label |-> label,
                                                amount |-> amount]]
  /\ UNCHANGED saving
  /\ UNCHANGED notSalaryVars

\* Click on .btn-save of a row, up to the await: a row without a label
\* sends nothing.
SaveClick(r) ==
  /\ ~adjRows[r].hidden.save
  /\ Cardinality(saving) < MaxSaving
  /\ saving' = IF adjRows[r].inputs.label = "" THEN saving
               ELSE saving \cup {[row |-> r, form |-> adjRows[r].inputs]}
  /\ UNCHANGED adjRows
  /\ UNCHANGED notSalaryVars

\* The response to a save request arrives: the server answers with the
\* values it stored, those of the form.
SaveSettled(s, ok) ==
  /\ adjRows' = [adjRows EXCEPT ![s.row] = saveSettled(@, ok, s.form)]
  /\ saving' = saving \ {s}
  /\ UNCHANGED notSalaryVars

NextSalary ==
  \/ \E r \in DOMAIN adjRows : EditClick(r)
  \/ \E r \in DOMAIN adjRows : CancelClick(r)
  \/ \E r \in DOMAIN adjRows, kind \in KindInputs, label \in LabelInputs,
        amount \in AmountInputs : InputChange(r, kind, label, amount)
  \/ \E r \in DOMAIN adjRows : SaveClick(r)
  \/ \E s \in saving, ok \in BOOLEAN : SaveSettled(s, ok)

SpecSalary == InitSalary /\ [][NextSalary]_vars

\* What the round trip is about: the three cells and the buttons' d-none.
RowView(row) == [cells |-> row.cells, hidden |-> row.hidden]

\* C30: for every row in display mode, Edit followed by Cancel gives back
\* the content and classes of its three cells and the visibility of its
\* three buttons.
C30_EditCancelRoundTrip ==
  \A r \in DOMAIN adjRows :
    ~adjRows[r].hidden.edit
      => RowView(cancelClick(editClick(adjRows[r]))) = RowView(adjRows[r])

=============================================================================
